---- MODULE Spec2Model ----
(***************************************************************************)
(* Model of the notification engine of the Telegram to-do / prayer bot:    *)
(* app/services/notification_service.py together with the stored rows it   *)
(* reads and writes (app/database.py) and the user handlers that write the *)
(* same rows (app/handlers/callbacks.py, get_or_create_user).              *)
(*                                                                         *)
(* Time is in seconds.  A sweep (check_notifications) is a coroutine; its  *)
(* position pc is the await it is suspended at, and the synchronous code   *)
(* between two awaits is part of the action that completes the first one.  *)
(* Handlers, clock ticks and stop() interleave at these awaits.            *)
(***************************************************************************)
EXTENDS Integers, Sequences, FiniteSets, TLC


VARIABLES
    users,                \* table users: id -> row (registered users only)
    tasks,                \* table tasks: id -> row
    prayer_notifications, \* table prayer_notifications: set of rows
    is_running,           \* NotificationService.is_running
    jobs,                 \* number of "notification_check" jobs in the scheduler
    botPresent,           \* NotificationService.bot is not None
    clock,                \* wall clock (seconds)
    pc,                   \* await the sweep in flight is suspended at;
                          \* "returning" / "aborting" when it is about to
                          \* return normally / through the except clause of
                          \* line 99; "idle" when no sweep runs
    now,                  \* check_notifications: now
    sweepUsers,           \* check_notifications: users (objects loaded by the sweep)
    ui,                   \* index of the user the loop of line 87 is at
    loadedTasks,          \* _check_task_notifications: tasks (in-memory objects)
    prayer_times,         \* _check_prayer_notifications: prayer_times
    pos,                  \* position in the (task, interval) / (prayer, interval) loop
    blockedFrom,          \* which loop awaits _mark_user_as_blocked
    ops,                  \* number of handler operations so far
    ev,                   \* what the last step of the sweep in flight did
    delivered,            \* history: reminders delivered so far (kept by
                          \* SpecTaskHistory and SpecPrayerHistory only)
    lostRecord,           \* history: prayer reminders delivered whose record
                          \* was not inserted (insert failed or was cancelled)
    lastCall,             \* history: "start" / "stop" when the last step was
                          \* that call (kept by SpecCallHistory only)
    evalCall,             \* the call of the threshold evaluator under test
                          \* (SpecEvaluator only)
    sweepDelivered,       \* reminders delivered by the sweep in flight
    blockedFail,          \* users with a delivery failure classified as blocked
                          \* in this sweep, unless marking them raised
    blockedAtStart,       \* users with blocked_bot = true when this sweep started
    interfered,           \* a handler committed while this sweep was in flight
    teams,                \* table teams: id -> row
    team_members,         \* table team_members: set of rows
    teamCall              \* the last call of TeamService and how it ended

vars == <<users, tasks, prayer_notifications, is_running, jobs, botPresent,
          clock, pc, now, sweepUsers, ui, loadedTasks, prayer_times, pos,
          blockedFrom, ops, ev, delivered, lostRecord, lastCall, evalCall,
          sweepDelivered, blockedFail, blockedAtStart, interfered,
          teams, team_members, teamCall>>

teamVars == <<teams, team_members, teamCall>>
dbVars == <<users, tasks, prayer_notifications>>
engineVars == <<is_running, jobs, botPresent>>
sweepLocals == <<sweepUsers, ui, loadedTasks, prayer_times, pos, blockedFrom>>
sweepGhosts == <<sweepDelivered, blockedFail, blockedAtStart, interfered>>
historyVars == <<delivered, lostRecord, lastCall, evalCall>>

\* The variables of the program and of the sweep in flight.
stateVars == <<dbVars, engineVars, clock, pc, now, sweepLocals, ops, ev, sweepGhosts>>

----------------------------------------------------------------------------
(* Bounds *)

MaxUsers == 2
MaxTasks == 2
MaxTicks == 2
MaxOps == 1
MaxSlack == 6
MaxTeams == 2
MaxTeamCalls == 4

(* Program constants *)

SecondsPerMinute == 60
SecondsPerDay == 86400
TaskWindow == 5
PrayerWindow == 2

UserIds == 1..MaxUsers
TaskIds == 1..MaxTasks

\* A nullable value is <<>> (None / NULL) or <<v>>.
NULL == <<>>
Some(v) == <<v>>

\* The clock starts at 04:44:00 of day 0; sweeps run on minute boundaries.
Now0 == 4 * 3600 + 44 * 60

task_intervals ==
    << [id |-> "1day",  minutes |-> 24 * 60],
       [id |-> "1hour", minutes |-> 60],
       [id |-> "15min", minutes |-> 15],
       [id |-> "due",   minutes |-> 0] >>

prayer_intervals ==
    << [id |-> "15min", minutes |-> 15],
       [id |-> "5min",  minutes |-> 5] >>

prayers == <<"Fajr", "Dhuhr", "Asr", "Maghrib", "Isha">>

TaskIntervalIds == {task_intervals[i].id : i \in 1..Len(task_intervals)}

NoFlags == [i \in TaskIntervalIds |-> FALSE]

\* Due times of the stored tasks, as offsets from Now0: 90 s (crosses the due
\* time between the first two sweeps), 12 min (inside the 15-minute window at
\* the first sweep, outside it afterwards) and 61.5 min (enters the 1-hour
\* window at the second sweep).  Task t is due at the t-th of them.
DueOffsets == <<90, 12 * 60, 61 * 60 + 30>>
DueOf(t) == Now0 + DueOffsets[((t - 1) % Len(DueOffsets)) + 1]

\* What the prayer-time source answers for today: "HH:MM" strings, split at
\* ':' into their parts.  <<>> is the empty string.
PrayerTimesTable ==
    [Fajr |-> <<"05", "00">>, Dhuhr |-> <<"12", "30">>, Asr |-> <<"15", "xx">>,
     Maghrib |-> <<>>, Isha |-> <<"25", "10">>]

----------------------------------------------------------------------------
(* Pure helpers *)

\* int(x / 60) of Python: truncation toward zero.
MinutesUntil(diff) ==
    IF diff >= 0 THEN diff \div SecondsPerMinute
                 ELSE -((-diff) \div SecondsPerMinute)

\* int(s) for the numerals that occur; -1 stands for ValueError.
IntOf(s) ==
    CASE s = "00" -> 0 [] s = "05" -> 5 [] s = "10" -> 10 [] s = "12" -> 12
      [] s = "15" -> 15 [] s = "25" -> 25 [] s = "30" -> 30
      [] OTHER -> -1

DayStart(t) == (t \div SecondsPerDay) * SecondsPerDay

\* now.date().isoformat(): the day number stands for the date string.
Today(t) == t \div SecondsPerDay

\* Variant of _parse_prayer_time that keeps the hour when only the minutes
\* are not a number; C37_MalformedTimeSkipped must reject it.
_parse_prayer_time_KeepsHour(time_str, base_date) ==
    IF Len(time_str) = 2 /\ IntOf(time_str[1]) \in 0..23
    THEN DayStart(base_date) + IntOf(time_str[1]) * 3600
         + (IF IntOf(time_str[2]) \in 0..59 THEN IntOf(time_str[2]) * 60 ELSE 0)
    ELSE base_date

_parse_prayer_time(time_str, base_date) ==
    IF /\ Len(time_str) = 2
       /\ IntOf(time_str[1]) \in 0..23
       /\ IntOf(time_str[2]) \in 0..59
    THEN DayStart(base_date) + IntOf(time_str[1]) * 3600 + IntOf(time_str[2]) * 60
    ELSE base_date

\* str.lower() on the words that occur in error messages.
LowerWord(w) ==
    CASE w = "Forbidden:" -> "forbidden:"
      [] w = "Bad" -> "bad"
      [] w = "Request:" -> "request:"
      [] w = "CHAT" -> "chat"
      [] w = "NOT" -> "not"
      [] w = "FOUND" -> "found"
      [] w = "Object" -> "object"
      [] OTHER -> w

Lower(msg) == [i \in 1..Len(msg) |-> LowerWord(msg[i])]

\* indicator in error_message, on word sequences.
Contains(msg, phrase) ==
    \E s \in 0..(Len(msg) - Len(phrase)) :
        \A j \in 1..Len(phrase) : msg[s + j] = phrase[j]

\* Variant of blocked_indicators with the shorter phrases "blocked by user",
\* "chat not found" and "deactivated"; C28_FourIndicatorPhrases must reject
\* it.
blocked_indicators_Short ==
    { <<"blocked", "by", "user">>,
      <<"chat", "not", "found">>,
      <<"deactivated">> }

blocked_indicators ==
    { <<"bot", "was", "blocked", "by", "the", "user">>,
      <<"user", "is", "deactivated">>,
      <<"chat", "not", "found">>,
      <<"bot", "is", "not", "a", "member">> }

_is_user_blocked_error(error) ==
    \E indicator \in blocked_indicators : Contains(Lower(error), indicator)

\* Errors bot.send_message can raise.
BlockedByUserError == <<"Forbidden:", "bot", "was", "blocked", "by", "the", "user">>
SendErrors ==
    { BlockedByUserError,
      <<"Bad", "Request:", "CHAT", "NOT", "FOUND">>,
      <<"blocked", "by", "user">>,
      <<"Request", "timeout", "error">> }

\* None.send_message: AttributeError.
NoBotError == <<"'NoneType'", "object", "has", "no", "attribute", "'send_message'">>

\* Session.add of an object that is attached to another open session.
AlreadyAttachedError == <<"Object", "is", "already", "attached", "to", "session">>

\* A storage call that fails (the database is unavailable or locked).
StorageError == <<"database", "is", "locked">>

RECURSIVE SortedSeq(_)
\* The elements of a finite set of integers in ascending order (row order).
SortedSeq(S) ==
    IF S = {} THEN <<>>
    ELSE LET m == CHOOSE x \in S : \A y \in S : x <= y
         IN <<m>> \o SortedSeq(S \ {m})

----------------------------------------------------------------------------
(* Threshold evaluator *)

\* Variant of _should_send_task_notification whose window includes its lower
\* end; C15_TaskWindow must reject it.
_should_send_task_notification_ClosedWindow(task, interval, minutes_until_due) ==
    /\ minutes_until_due <= interval.minutes
    /\ minutes_until_due >= interval.minutes - TaskWindow
    /\ ~task.sent[interval.id]

\* Variant of _should_send_task_notification without the lower end of the
\* window; C16_OneThresholdPerTask must reject it.
_should_send_task_notification_NoLowerEnd(task, interval, minutes_until_due) ==
    /\ minutes_until_due <= interval.minutes
    /\ ~task.sent[interval.id]

\* Variant of _should_send_task_notification whose window stays open until
\* the end of the window of the due threshold; C26_MissedWindowNeverFires
\* must reject it.
_should_send_task_notification_UntilDue(task, interval, minutes_until_due) ==
    /\ minutes_until_due <= interval.minutes
    /\ minutes_until_due > 0 - TaskWindow
    /\ ~task.sent[interval.id]

_should_send_task_notification(task, interval, minutes_until_due) ==
    LET target_minutes == interval.minutes
        is_time_for_notification ==
            /\ minutes_until_due <= target_minutes
            /\ minutes_until_due > target_minutes - TaskWindow
    IN IF ~is_time_for_notification THEN FALSE
       ELSE ~task.sent[interval.id]

\* Variant of PrayerIsTime whose window includes its lower end;
\* C17_PrayerWindow must reject it.
PrayerIsTime_ClosedWindow(interval, minutes_until_prayer) ==
    /\ minutes_until_prayer <= interval.minutes
    /\ minutes_until_prayer >= interval.minutes - PrayerWindow

\* Variant of PrayerIsTime with the window of the task thresholds;
\* C18_PrayerWindowIsTwoMinutes must reject it.
PrayerIsTime_TaskWindow(interval, minutes_until_prayer) ==
    /\ minutes_until_prayer <= interval.minutes
    /\ minutes_until_prayer > interval.minutes - TaskWindow

\* Lines 241-250 of _should_send_prayer_notification: the time window.
PrayerIsTime(interval, minutes_until_prayer) ==
    LET target_minutes == interval.minutes
    IN /\ minutes_until_prayer <= target_minutes
       /\ minutes_until_prayer > target_minutes - PrayerWindow

\* Variant of PrayerNotSentYet that never finds the record;
\* C5_PrayerDeliveredAtMostOnce must reject it.
PrayerNotSentYet_NoLookup(records, user_id, today, prayer, notification_type) ==
    TRUE

\* Variant of PrayerNotSentYet whose query matches the rows of other users
\* and leaves out the threshold kind; C23_OneRecordPerKey must reject it.
PrayerNotSentYet_OtherUsersRows(records, user_id, today, prayer, notification_type) ==
    ~\E r \in records :
        /\ r.user_id # user_id
        /\ r.date = today
        /\ r.prayer_name = prayer

\* Lines 253-265: the query for an existing record; TRUE iff existing is None.
PrayerNotSentYet(records, user_id, today, prayer, notification_type) ==
    ~\E r \in records :
        /\ r.user_id = user_id
        /\ r.date = today
        /\ r.prayer_name = prayer
        /\ r.notification_type = notification_type

_should_send_prayer_notification(records, user_id, prayer, interval, minutes_until_prayer, today) ==
    IF ~PrayerIsTime(interval, minutes_until_prayer) THEN FALSE
    ELSE PrayerNotSentYet(records, user_id, today, prayer, interval.id)

----------------------------------------------------------------------------
(* Storage operations *)

\* Variant of ActiveUsers without the where clause; C19_OnlyUsersLoadedUnblocked
\* must reject it.
ActiveUsers_IncludesBlocked(usersTbl) ==
    LET ids == SortedSeq(DOMAIN usersTbl)
    IN [i \in 1..Len(ids) |->
           [id |-> ids[i],
            notifications_enabled |-> usersTbl[ids[i]].notifications_enabled,
            prayer_notifications_enabled |-> usersTbl[ids[i]].prayer_notifications_enabled,
            prayer_region |-> usersTbl[ids[i]].prayer_region]]

\* select(User).where(User.blocked_bot == False), as in-memory objects.
ActiveUsers(usersTbl) ==
    LET ids == SortedSeq({u \in DOMAIN usersTbl : usersTbl[u].blocked_bot = FALSE})
    IN [i \in 1..Len(ids) |->
           [id |-> ids[i],
            notifications_enabled |-> usersTbl[ids[i]].notifications_enabled,
            prayer_notifications_enabled |-> usersTbl[ids[i]].prayer_notifications_enabled,
            prayer_region |-> usersTbl[ids[i]].prayer_region]]

\* Variant of ActiveTasks without the condition on completed;
\* C20_CompletedTaskExcluded must reject it.
ActiveTasks_IncludesCompleted(tasksTbl, user_id) ==
    LET ids == SortedSeq({t \in DOMAIN tasksTbl : tasksTbl[t].user_id = user_id})
    IN [i \in 1..Len(ids) |->
           [id |-> ids[i],
            due_date |-> tasksTbl[ids[i]].due_date,
            sent |-> tasksTbl[ids[i]].sent]]

\* select(Task).where(user_id == user.id, completed == False), as objects.
ActiveTasks(tasksTbl, user_id) ==
    LET ids == SortedSeq({t \in DOMAIN tasksTbl :
                            /\ tasksTbl[t].user_id = user_id
                            /\ tasksTbl[t].completed = FALSE})
    IN [i \in 1..Len(ids) |->
           [id |-> ids[i],
            due_date |-> tasksTbl[ids[i]].due_date,
            sent |-> tasksTbl[ids[i]].sent]]

\* _mark_task_notification_sent: setattr on the in-memory task, then
\* session.add(task) on a second session while the task is still attached to
\* the session that loaded it: SQLAlchemy raises InvalidRequestError before
\* the commit, so no row changes.  The session that loaded the task is closed
\* without a commit, so the attribute set in memory is never flushed either.
_mark_task_notification_sent(tasksTbl, task, interval) ==
    [task   |-> [task EXCEPT !.sent[interval.id] = TRUE],
     stored |-> tasksTbl,
     raised |-> AlreadyAttachedError]

\* _record_prayer_notification: a new row with the next autoincrement id.
_record_prayer_notification(records, user_id, date, prayer, notification_type) ==
    records \cup
        {[id |-> Cardinality(records) + 1,
          user_id |-> user_id,
          date |-> date,
          prayer_name |-> prayer,
          notification_type |-> notification_type]}

\* Variant of _mark_user_as_blocked that leaves the prayer toggle as it is;
\* C6_BlockedUserMarked must reject it.
_mark_user_as_blocked_KeepsPrayerToggle(usersTbl, user_id, utcnow) ==
    IF user_id \in DOMAIN usersTbl
    THEN [usersTbl EXCEPT ![user_id] =
             [@ EXCEPT !.blocked_bot = TRUE,
                       !.blocked_at = Some(utcnow),
                       !.notifications_enabled = FALSE]]
    ELSE usersTbl

\* Variant of _mark_user_as_blocked that clears the region of the user as
\* well; C24_SweepFrame must reject it.
_mark_user_as_blocked_ClearsRegion(usersTbl, user_id, utcnow) ==
    IF user_id \in DOMAIN usersTbl
    THEN [usersTbl EXCEPT ![user_id] =
             [@ EXCEPT !.blocked_bot = TRUE,
                       !.blocked_at = Some(utcnow),
                       !.notifications_enabled = FALSE,
                       !.prayer_notifications_enabled = FALSE,
                       !.prayer_region = NULL]]
    ELSE usersTbl

\* _mark_user_as_blocked: the row is loaded, the four columns are set and the
\* change is committed.
_mark_user_as_blocked(usersTbl, user_id, utcnow) ==
    IF user_id \in DOMAIN usersTbl
    THEN [usersTbl EXCEPT ![user_id] =
             [@ EXCEPT !.blocked_bot = TRUE,
                       !.blocked_at = Some(utcnow),
                       !.notifications_enabled = FALSE,
                       !.prayer_notifications_enabled = FALSE]]
    ELSE usersTbl

\* User(...) with the column defaults of app/database.py.
NewUser ==
    [prayer_region |-> Some("Toshkent"),
     notifications_enabled |-> TRUE,
     prayer_notifications_enabled |-> TRUE,
     blocked_bot |-> FALSE,
     blocked_at |-> NULL]

----------------------------------------------------------------------------
(* Control flow of a sweep between two awaits *)

NoError == <<>>

NTaskIntervals == Len(task_intervals)
NPrayerIntervals == Len(prayer_intervals)

\* The (task, interval) pair at position k of the nested loops of
\* _check_task_notifications, and the (prayer, interval) pair of
\* _check_prayer_notifications.
TaskAt(k) == ((k - 1) \div NTaskIntervals) + 1
TaskIntervalAt(k) == task_intervals[((k - 1) % NTaskIntervals) + 1]
PrayerAt(k) == prayers[((k - 1) \div NPrayerIntervals) + 1]
PrayerIntervalAt(k) == prayer_intervals[((k - 1) % NPrayerIntervals) + 1]

TaskKey(task_id, interval_id) == <<"task", task_id, interval_id>>
PrayerKey(user_id, today, prayer, interval_id) ==
    <<"prayer", user_id, today, prayer, interval_id>>

MinutesUntilPrayer(times, prayer, nowv) ==
    MinutesUntil(_parse_prayer_time(times[prayer], nowv) - nowv)

RECURSIVE TaskScan(_, _, _)
\* First position >= k of the task loop whose threshold fires, 0 if none.
TaskScan(lt, k, nowv) ==
    IF k > Len(lt) * NTaskIntervals THEN 0
    ELSE IF _should_send_task_notification(
                lt[TaskAt(k)], TaskIntervalAt(k),
                MinutesUntil(lt[TaskAt(k)].due_date - nowv))
         THEN k
         ELSE TaskScan(lt, k + 1, nowv)

RECURSIVE PrayerScan(_, _, _)
\* First position >= k of the prayer loop that reaches the record query of
\* _should_send_prayer_notification (time string present, inside the window).
PrayerScan(times, k, nowv) ==
    IF k > Len(prayers) * NPrayerIntervals THEN 0
    ELSE IF /\ times[PrayerAt(k)] # <<>>
            /\ PrayerIsTime(PrayerIntervalAt(k),
                            MinutesUntilPrayer(times, PrayerAt(k), nowv))
         THEN k
         ELSE PrayerScan(times, k + 1, nowv)


\* The loop over the users is finished: lines 96-97, then the return.
Returning(su) == [pc |-> "returning", ui |-> Len(su), pos |-> 0]

RECURSIVE EnterUser(_, _)
RECURSIVE EnterPrayer(_, _)
\* Variant of EnterPrayer whose guard looks at the toggle only;
\* C21_PrayerCheckSkipped must reject it.
EnterPrayer_IgnoresRegion(su, i) ==
    IF ~su[i].prayer_notifications_enabled
    THEN EnterUser(su, i + 1)
    ELSE [pc |-> "fetchPrayer", ui |-> i, pos |-> 0]

\* Variant of EnterUser that passes over a user whose task toggle is off,
\* prayer check included; C27_TogglesIndependent must reject it.
EnterUser_SkipsUser(su, i) ==
    IF i > Len(su) THEN Returning(su)
    ELSE IF ~su[i].notifications_enabled THEN EnterUser(su, i + 1)
         ELSE [pc |-> "loadTasks", ui |-> i, pos |-> 0]

\* Loop head of check_notifications for user i, up to the first await.
EnterUser(su, i) ==
    IF i > Len(su) THEN Returning(su)
    ELSE IF ~su[i].notifications_enabled THEN EnterPrayer(su, i)
         ELSE [pc |-> "loadTasks", ui |-> i, pos |-> 0]

\* _check_prayer_notifications for user i, up to the first await.
EnterPrayer(su, i) ==
    IF ~su[i].prayer_notifications_enabled \/ su[i].prayer_region = NULL
    THEN EnterUser(su, i + 1)
    ELSE [pc |-> "fetchPrayer", ui |-> i, pos |-> 0]

\* The task loop of user i from position k on.
ContinueTasks(su, i, lt, k, nowv) ==
    LET k2 == TaskScan(lt, k, nowv)
    IN IF k2 > 0 THEN [pc |-> "sendTask", ui |-> i, pos |-> k2]
       ELSE EnterPrayer(su, i)

\* The prayer loop of user i from position k on.
ContinuePrayers(su, i, times, k, nowv) ==
    LET k2 == PrayerScan(times, k, nowv)
    IN IF k2 > 0 THEN [pc |-> "checkPrayerRec", ui |-> i, pos |-> k2]
       ELSE EnterUser(su, i + 1)

\* The task objects live in the frame of _check_task_notifications and
\* prayer_times in the frame of _check_prayer_notifications: they are gone
\* when control, at c, has left the function.
TasksFrame(c, lt) ==
    IF c.pc \in {"sendTask", "markBlocked"} THEN lt ELSE <<>>

TimesFrame(c, times) ==
    IF c.pc \in {"checkPrayerRec", "sendPrayer", "recordPrayer", "markBlocked"}
    THEN times ELSE NULL

----------------------------------------------------------------------------
(* Teams: TeamService *)

TeamIds == 1..MaxTeams

\* Row.user_id on the Row that Result.first() returns for select(TeamMember):
\* the row's only key is the entity, so the attribute lookup fails.
RowAttributeError == <<"Could", "not", "locate", "column", "in", "row">>

\* user_id of the members of team team_id.
TeamMembersOf(membersTbl, team_id) ==
    {m.user_id : m \in {x \in membersTbl : x.team_id = team_id}}

\* What a call of TeamService leaves: the two tables and the exception it
\* raised (NoError if it returned).  A call that raises leaves its session
\* without commit: the tables are as before.
TeamResult(teamsTbl, membersTbl, raised) ==
    [teams |-> teamsTbl, team_members |-> membersTbl, raised |-> raised]

\* Lines 26-61.  team_id is the id the loop of lines 33-39 ends with: one
\* that no team has.
create_team(teamsTbl, membersTbl, team_id, admin_id) ==
    TeamResult(
        [t \in DOMAIN teamsTbl \cup {team_id} |->
            IF t = team_id THEN [admin_id |-> admin_id] ELSE teamsTbl[t]],
        membersTbl \cup
            {[team_id |-> team_id, user_id |-> admin_id, is_admin |-> TRUE]},
        NoError)

\* Lines 63-100.
join_team(teamsTbl, membersTbl, team_id, user_id) ==
    IF team_id \notin DOMAIN teamsTbl
    THEN TeamResult(teamsTbl, membersTbl, <<"Team", "not", "found">>)
    ELSE IF user_id \in TeamMembersOf(membersTbl, team_id)
    THEN TeamResult(teamsTbl, membersTbl, <<"User", "already", "in", "team">>)
    ELSE TeamResult(
             teamsTbl,
             membersTbl \cup
                 {[team_id |-> team_id, user_id |-> user_id, is_admin |-> FALSE]},
             NoError)

\* Lines 102-155.  When the admin leaves and other members remain, line 143
\* reads other_member.user_id on a Row and raises before anything is
\* committed; when the admin is the last member the team is deleted (and its
\* member rows with it, by the cascade of Team.members).
leave_team(teamsTbl, membersTbl, team_id, user_id) ==
    IF team_id \notin DOMAIN teamsTbl
    THEN TeamResult(teamsTbl, membersTbl, <<"Team", "not", "found">>)
    ELSE IF user_id \notin TeamMembersOf(membersTbl, team_id)
    THEN TeamResult(teamsTbl, membersTbl, <<"User", "not", "in", "team">>)
    ELSE LET rest == {m \in membersTbl :
                         ~(m.team_id = team_id /\ m.user_id = user_id)}
             other_members == {m \in rest : m.team_id = team_id}
         IN IF teamsTbl[team_id].admin_id = user_id
            THEN IF other_members # {}
                 THEN TeamResult(teamsTbl, membersTbl, RowAttributeError)
                 ELSE TeamResult(
                          [t \in DOMAIN teamsTbl \ {team_id} |-> teamsTbl[t]],
                          {m \in rest : m.team_id # team_id},
                          NoError)
            ELSE TeamResult(teamsTbl, rest, NoError)

\* No team exists and TeamService has not been called.
NoTeams ==
    /\ teams = <<>>
    /\ team_members = {}
    /\ teamCall = [n |-> 0, op |-> "none", team |-> 0, user |-> 0,
                   raised |-> NoError]

\* One call of TeamService, numbered, with its arguments and its outcome.
TeamCall(op, team_id, user_id, result) ==
    /\ teams' = result.teams
    /\ team_members' = result.team_members
    /\ teamCall' = [n |-> teamCall.n + 1,
                    op |-> op, team |-> team_id, user |-> user_id,
                    raised |-> result.raised]
    /\ UNCHANGED <<stateVars, historyVars>>

TeamCallsLeft == teamCall.n < MaxTeamCalls

CreateTeam(team_id, admin_id) ==
    /\ TeamCallsLeft
    /\ team_id \notin DOMAIN teams
    /\ TeamCall("create", team_id, admin_id,
                create_team(teams, team_members, team_id, admin_id))

JoinTeam(team_id, user_id) ==
    /\ TeamCallsLeft
    /\ TeamCall("join", team_id, user_id,
                join_team(teams, team_members, team_id, user_id))

LeaveTeam(team_id, user_id) ==
    /\ TeamCallsLeft
    /\ TeamCall("leave", team_id, user_id,
                leave_team(teams, team_members, team_id, user_id))

NextTeams ==
    \/ \E t \in TeamIds : \E u \in UserIds : CreateTeam(t, u)
    \/ \E t \in TeamIds : \E u \in UserIds : JoinTeam(t, u)
    \/ \E t \in TeamIds : \E u \in UserIds : LeaveTeam(t, u)

----------------------------------------------------------------------------
(* Initial state *)

\* Flags a task row can carry when it is inserted: none set (messages.py),
\* or some already set by the data import (migrate_data.py).
InitSentChoices == {NoFlags, [NoFlags EXCEPT !["due"] = TRUE]}

Init ==
    /\ users = [u \in {1} |-> NewUser]
    /\ tasks \in [TaskIds -> [user_id : {1},
                              due_date : {DueOf(t) : t \in TaskIds},
                              completed : {FALSE},
                              sent : InitSentChoices]]
    /\ \A t \in TaskIds : tasks[t].due_date = DueOf(t)
    /\ \A t \in TaskIds : tasks[t].sent # NoFlags => t = 1
    /\ prayer_notifications = {}
    /\ is_running = FALSE
    /\ jobs = 0
    /\ botPresent \in BOOLEAN
    /\ clock = Now0
    /\ pc = "idle"
    /\ now = Now0
    /\ sweepUsers = <<>>
    /\ ui = 0
    /\ loadedTasks = <<>>
    /\ prayer_times = NULL
    /\ pos = 0
    /\ blockedFrom = "none"
    /\ ops = 0
    /\ ev = "none"
    /\ delivered = {}
    /\ lostRecord = {}
    /\ lastCall = "none"
    /\ evalCall = NULL
    /\ NoTeams
    /\ sweepDelivered = {}
    /\ blockedFail = {}
    /\ blockedAtStart = {}
    /\ interfered = FALSE

\* No sweep is in flight: its locals are gone.
SweepGone ==
    /\ pc' = "idle"
    /\ now' = Now0
    /\ sweepUsers' = <<>>
    /\ ui' = 0
    /\ loadedTasks' = <<>>
    /\ prayer_times' = NULL
    /\ pos' = 0
    /\ blockedFrom' = "none"
    /\ ev' = "none"
    /\ sweepDelivered' = {}
    /\ blockedFail' = {}
    /\ blockedAtStart' = {}
    /\ interfered' = FALSE

----------------------------------------------------------------------------
(* Engine life cycle: NotificationService.start / stop *)

\* Variant of Start without the guard of line 44: every call adds the job;
\* C13_StartIdempotent must reject it.
Start_AlwaysRegisters ==
    /\ jobs' = jobs + 1
    /\ is_running' = TRUE
    /\ UNCHANGED <<dbVars, botPresent, clock, pc, now, sweepLocals, ops, ev,
                   sweepGhosts>>

\* Variant of Start that sets is_running and registers nothing;
\* C38_RunningIffOneJob must reject it.
Start_FlagOnly ==
    /\ is_running' = TRUE
    /\ UNCHANGED jobs
    /\ UNCHANGED <<dbVars, botPresent, clock, pc, now, sweepLocals, ops, ev,
                   sweepGhosts>>

Start ==
    /\ IF is_running
       THEN UNCHANGED <<is_running, jobs>>
       ELSE /\ jobs' = jobs + 1
            /\ is_running' = TRUE
    /\ UNCHANGED <<dbVars, botPresent, clock, pc, now, sweepLocals, ops, ev,
                   sweepGhosts>>

\* Variant of Stop that clears is_running and leaves the scheduler alone;
\* C14_StopDisposesJob must reject it.
Stop_KeepsScheduler ==
    /\ is_running' = FALSE
    /\ UNCHANGED <<jobs, pc, now, sweepLocals, sweepGhosts, ev>>
    /\ UNCHANGED <<dbVars, botPresent, clock, ops>>

\* scheduler.shutdown(): the job is removed and the asyncio executor cancels
\* the coroutine of a sweep in flight at the await it is suspended at.
Stop ==
    /\ IF ~is_running
       THEN UNCHANGED <<is_running, jobs, pc, now, sweepLocals, sweepGhosts,
                        ev>>
       ELSE /\ jobs' = 0
            /\ is_running' = FALSE
            /\ SweepGone
    /\ UNCHANGED <<dbVars, botPresent, clock, ops>>

\* Variant of max_instances that lets a second run start beside a sweep in
\* flight; C12_OneSweepInFlight must reject it.
max_instances_Two == 1 + 1

\* add_job(..., max_instances=1), line 55.
max_instances == 1

\* Running instances of the job "notification_check".
Instances == IF pc = "idle" THEN 0 ELSE 1

\* The cron trigger (second = 0) fires every minute.  A run that would bring
\* the running instances above max_instances is skipped (the scheduler logs
\* it and computes the next run time); it is not run later.
Tick ==
    /\ clock < Now0 + MaxTicks * SecondsPerMinute
    /\ clock' = clock + SecondsPerMinute
    /\ IF jobs > 0 /\ Instances < max_instances
       THEN /\ pc' = "loadUsers"
            /\ now' = clock'
            /\ blockedAtStart' = {u \in DOMAIN users : users[u].blocked_bot}
            /\ ev' = "sweepStart"
            /\ UNCHANGED <<sweepLocals, sweepDelivered, blockedFail,
                           interfered>>
       ELSE UNCHANGED <<pc, now, ev, sweepLocals, sweepGhosts>>
    /\ UNCHANGED <<dbVars, engineVars, ops>>

----------------------------------------------------------------------------
(* The sweep: check_notifications *)

Goto(c) ==
    /\ pc' = c.pc
    /\ ui' = c.ui
    /\ pos' = c.pos

\* Variant of Abort without the except clause of line 99: the exception
\* leaves check_notifications and ends the run; C11_SweepNeverRaises must
\* reject it.
Abort_Propagates ==
    /\ pc' = "idle"
    /\ ui' = ui
    /\ pos' = 0

\* An exception that reaches the except clause of check_notifications (line
\* 99): it is logged and the sweep returns; the loop over the users is left
\* at the user it was at.
Abort ==
    /\ pc' = "aborting"
    /\ ui' = ui
    /\ pos' = 0

\* The reminder a sweep suspended at a send or at the insert of a record
\* is about.
CurrentKey ==
    IF pc = "sendTask"
    THEN TaskKey(loadedTasks[TaskAt(pos)].id, TaskIntervalAt(pos).id)
    ELSE PrayerKey(sweepUsers[ui].id, Today(now), PrayerAt(pos),
                   PrayerIntervalAt(pos).id)

\* Variant of SendOutcomes that takes the dispatcher to be there whatever the
\* constructor was given; C36_NoBotDeliveryIsTransient must reject it.
SendOutcomes_BotAssumed == {NoError} \cup SendErrors

SendOutcomes == IF botPresent THEN {NoError} \cup SendErrors ELSE {NoBotError}

\* Lines 80-87: the query for the active users completes.
LoadUsersDone ==
    /\ pc = "loadUsers"
    /\ \/ LET su == ActiveUsers(users)
          IN /\ sweepUsers' = su
             /\ Goto(EnterUser(su, 1))
             /\ ev' = "usersLoaded"
       \/ /\ Abort
          /\ ev' = "storageError"
          /\ UNCHANGED sweepUsers
    /\ UNCHANGED <<dbVars, engineVars, clock, now, loadedTasks, prayer_times,
                   blockedFrom, ops, sweepGhosts>>

\* Lines 109-130: the query for the user's incomplete tasks completes and the
\* loops run up to the first threshold that fires.
LoadTasksDone ==
    /\ pc = "loadTasks"
    /\ \/ LET lt == ActiveTasks(tasks, sweepUsers[ui].id)
              c == ContinueTasks(sweepUsers, ui, lt, 1, now)
          IN /\ loadedTasks' = TasksFrame(c, lt)
             /\ Goto(c)
             /\ ev' = "tasksLoaded"
       \/ /\ Abort
          /\ ev' = "storageError"
          /\ UNCHANGED loadedTasks
    /\ UNCHANGED <<dbVars, engineVars, clock, now, sweepUsers, prayer_times,
                   blockedFrom, ops, sweepGhosts>>

\* Variant of SendTaskBranch in which the flag is marked whether or not
\* send_message returned; C4_SentStateFollowsDelivery must reject it.
SendTaskBranch_MarksAlways(outcome) ==
    "mark"

\* Lines 131-146: inside the try, the statements after send_message (the
\* marking of the flag, the counter) run only when send_message returned.
SendTaskBranch(outcome) ==
    IF outcome = NoError THEN "mark" ELSE "except"

\* What the step that completes a send reports.
SendEvent(outcome) ==
    IF outcome = NoError THEN "delivered"
    ELSE IF _is_user_blocked_error(outcome) THEN "blockedFail"
    ELSE "transientFail"

\* Lines 131-154: bot.send_message returns or raises; on success the flag is
\* marked; the except clause classifies whatever was raised.
SendTaskDone ==
    /\ pc = "sendTask"
    /\ \E outcome \in SendOutcomes :
        LET u == sweepUsers[ui].id
            ti == TaskAt(pos)
            task == loadedTasks[ti]
            interval == TaskIntervalAt(pos)
            key == TaskKey(task.id, interval.id)
            sent == outcome = NoError
            marks == SendTaskBranch(outcome) = "mark"
            mark == _mark_task_notification_sent(tasks, task, interval)
            err == IF marks THEN mark.raised ELSE outcome
            lt == IF marks THEN [loadedTasks EXCEPT ![ti] = mark.task]
                           ELSE loadedTasks
            isBlocked == err # NoError /\ _is_user_blocked_error(err)
            c == IF isBlocked
                 THEN [pc |-> "markBlocked", ui |-> ui, pos |-> pos]
                 ELSE ContinueTasks(sweepUsers, ui, lt, pos + 1, now)
        IN /\ tasks' = IF marks THEN mark.stored ELSE tasks
           /\ loadedTasks' = TasksFrame(c, lt)
           /\ Goto(c)
           /\ blockedFrom' = IF isBlocked THEN "task" ELSE blockedFrom
           /\ sweepDelivered' = IF sent THEN sweepDelivered \cup {key}
                                        ELSE sweepDelivered
           /\ blockedFail' = IF isBlocked THEN blockedFail \cup {u}
                                          ELSE blockedFail
           /\ ev' = SendEvent(outcome)
    /\ UNCHANGED <<users, prayer_notifications, engineVars, clock, now,
                   sweepUsers, prayer_times, ops, blockedAtStart,
                   interfered>>

\* Lines 152 / 211: _mark_user_as_blocked commits or raises.  Raised from the
\* task loop the exception leaves check_notifications' loop; raised from the
\* prayer loop it is caught at line 215 and the next user follows.
MarkBlockedDone ==
    /\ pc = "markBlocked"
    /\ LET u == sweepUsers[ui].id
       IN \/ LET c == IF blockedFrom = "task"
                      THEN ContinueTasks(sweepUsers, ui, loadedTasks,
                                         pos + 1, now)
                      ELSE ContinuePrayers(sweepUsers, ui, prayer_times[1],
                                           pos + 1, now)
             IN /\ users' = _mark_user_as_blocked(users, u, clock)
                /\ Goto(c)
                /\ loadedTasks' = TasksFrame(c, loadedTasks)
                /\ prayer_times' = TimesFrame(c, prayer_times)
                /\ ev' = "markedBlocked"
                /\ UNCHANGED blockedFail
          \/ /\ blockedFrom = "task"
             /\ Abort
             /\ loadedTasks' = <<>>
             /\ ev' = "storageError"
             /\ blockedFail' = blockedFail \ {u}
             /\ UNCHANGED <<users, prayer_times>>
          \/ /\ blockedFrom = "prayer"
             /\ Goto(EnterUser(sweepUsers, ui + 1))
             /\ prayer_times' = NULL
             /\ ev' = "storageError"
             /\ blockedFail' = blockedFail \ {u}
             /\ UNCHANGED <<users, loadedTasks>>
    /\ blockedFrom' = "none"
    /\ UNCHANGED <<tasks, prayer_notifications, engineVars, clock, now,
                   sweepUsers, ops, sweepDelivered,
                   blockedAtStart, interfered>>

\* Variant of FetchPrayerDone in which a failed fetch reaches the except
\* clause of check_notifications and ends the sweep; C22_FetchFailureSkips
\* must reject it.
FetchPrayerDone_FailureEndsSweep ==
    /\ pc = "fetchPrayer"
    /\ \E result \in {NULL, Some(PrayerTimesTable)} :
        IF result = NULL
        THEN /\ Abort
             /\ prayer_times' = NULL
             /\ ev' = "fetchFailed"
        ELSE LET c == ContinuePrayers(sweepUsers, ui, result[1], 1, now)
             IN /\ prayer_times' = TimesFrame(c, result)
                /\ Goto(c)
                /\ ev' = "fetched"
    /\ UNCHANGED <<dbVars, engineVars, clock, now, sweepUsers, loadedTasks,
                   blockedFrom, ops, sweepGhosts>>

\* Variant of FetchPrayerDone in which a fetch that gave no times sends the
\* loop back to the head of the same user; C31_EverySweepTerminates must
\* reject it.
FetchPrayerDone_RevisitsUser ==
    /\ pc = "fetchPrayer"
    /\ \E result \in {NULL, Some(PrayerTimesTable)} :
        LET c == IF result = NULL
                 THEN EnterUser(sweepUsers, ui)
                 ELSE ContinuePrayers(sweepUsers, ui, result[1], 1, now)
        IN /\ prayer_times' = TimesFrame(c, result)
           /\ Goto(c)
           /\ ev' = IF result = NULL THEN "fetchFailed" ELSE "fetched"
    /\ UNCHANGED <<dbVars, engineVars, clock, now, sweepUsers, loadedTasks,
                   blockedFrom, ops, sweepGhosts>>

\* Lines 166-187: get_prayer_times returns the times or None (it catches its
\* own errors); the loops run up to the first pair inside its window.
FetchPrayerDone ==
    /\ pc = "fetchPrayer"
    /\ \E result \in {NULL, Some(PrayerTimesTable)} :
        LET c == IF result = NULL
                 THEN EnterUser(sweepUsers, ui + 1)
                 ELSE ContinuePrayers(sweepUsers, ui, result[1], 1, now)
        IN /\ prayer_times' = TimesFrame(c, result)
           /\ Goto(c)
           /\ ev' = IF result = NULL THEN "fetchFailed" ELSE "fetched"
    /\ UNCHANGED <<dbVars, engineVars, clock, now, sweepUsers, loadedTasks,
                   blockedFrom, ops, sweepGhosts>>

\* Lines 185-187 and 253-265: the query for an existing record completes.  A
\* storage error here is caught at line 215 and ends this user's prayer check.
CheckPrayerRecDone ==
    /\ pc = "checkPrayerRec"
    /\ LET u == sweepUsers[ui].id
           prayer == PrayerAt(pos)
           interval == PrayerIntervalAt(pos)
       IN \/ LET fire == _should_send_prayer_notification(
                             prayer_notifications, u, prayer, interval,
                             MinutesUntilPrayer(prayer_times[1], prayer, now),
                             Today(now))
                 c == IF fire
                      THEN [pc |-> "sendPrayer", ui |-> ui, pos |-> pos]
                      ELSE ContinuePrayers(sweepUsers, ui, prayer_times[1],
                                           pos + 1, now)
             IN /\ Goto(c)
                /\ prayer_times' = TimesFrame(c, prayer_times)
                /\ ev' = IF fire THEN "recordAbsent" ELSE "recordPresent"
          \/ /\ Goto(EnterUser(sweepUsers, ui + 1))
             /\ prayer_times' = NULL
             /\ ev' = "storageError"
    /\ UNCHANGED <<dbVars, engineVars, clock, now, sweepUsers, loadedTasks,
                   blockedFrom, ops, sweepGhosts>>

\* Variant of SendPrayerBranch in which the record is inserted whether or
\* not send_message returned; C9_TransientFailureChangesNothing must reject it.
SendPrayerBranch_RecordsAlways(outcome) ==
    "record"

\* Lines 188-207: inside the try, the statements after send_message (the
\* insert of the record, the counter) run only when send_message returned.
SendPrayerBranch(outcome) ==
    IF outcome = NoError THEN "record" ELSE "except"

\* Lines 188-213: bot.send_message returns or raises.
SendPrayerDone ==
    /\ pc = "sendPrayer"
    /\ \E outcome \in SendOutcomes :
        LET u == sweepUsers[ui].id
            key == CurrentKey
            sent == outcome = NoError
            records == SendPrayerBranch(outcome) = "record"
            isBlocked == ~records /\ _is_user_blocked_error(outcome)
            c == IF records
                 THEN [pc |-> "recordPrayer", ui |-> ui, pos |-> pos]
                 ELSE IF isBlocked
                      THEN [pc |-> "markBlocked", ui |-> ui, pos |-> pos]
                      ELSE ContinuePrayers(sweepUsers, ui, prayer_times[1],
                                           pos + 1, now)
        IN /\ Goto(c)
           /\ prayer_times' = TimesFrame(c, prayer_times)
           /\ blockedFrom' = IF isBlocked THEN "prayer" ELSE blockedFrom
           /\ sweepDelivered' = IF sent THEN sweepDelivered \cup {key}
                                        ELSE sweepDelivered
           /\ blockedFail' = IF isBlocked THEN blockedFail \cup {u}
                                          ELSE blockedFail
           /\ ev' = SendEvent(outcome)
    /\ UNCHANGED <<dbVars, engineVars, clock, now, sweepUsers, loadedTasks,
                   ops, blockedAtStart, interfered>>

\* Line 204: _record_prayer_notification commits or raises; what it raises is
\* classified by the except clause at line 209.
RecordPrayerDone ==
    /\ pc = "recordPrayer"
    /\ \E err \in {NoError, StorageError} :
        LET u == sweepUsers[ui].id
            prayer == PrayerAt(pos)
            interval == PrayerIntervalAt(pos)
            isBlocked == err # NoError /\ _is_user_blocked_error(err)
            c == IF isBlocked
                 THEN [pc |-> "markBlocked", ui |-> ui, pos |-> pos]
                 ELSE ContinuePrayers(sweepUsers, ui, prayer_times[1],
                                      pos + 1, now)
        IN /\ prayer_notifications' =
                 IF err = NoError
                 THEN _record_prayer_notification(prayer_notifications, u,
                                                  Today(now), prayer,
                                                  interval.id)
                 ELSE prayer_notifications
           /\ Goto(c)
           /\ prayer_times' = TimesFrame(c, prayer_times)
           /\ blockedFrom' = IF isBlocked THEN "prayer" ELSE blockedFrom
           /\ blockedFail' = IF isBlocked THEN blockedFail \cup {u}
                                          ELSE blockedFail
           /\ ev' = IF err = NoError THEN "recorded" ELSE "storageError"
    /\ UNCHANGED <<users, tasks, engineVars, clock, now, sweepUsers,
                   loadedTasks, ops, sweepDelivered,
                   blockedAtStart, interfered>>

\* Lines 96-100: the sweep logs its total (or the exception) and returns.
SweepReturn ==
    /\ pc \in {"returning", "aborting"}
    /\ SweepGone
    /\ UNCHANGED <<dbVars, engineVars, clock, ops>>

----------------------------------------------------------------------------
(* User handlers *)

\* A handler that commits a change counts as one operation; a handler that
\* answers without changing a modelled column leaves the state as it is.
Handler(changed) ==
    /\ ops < MaxOps
    /\ ops' = IF changed THEN ops + 1 ELSE ops
    /\ interfered' = IF changed THEN (interfered \/ pc # "idle") ELSE interfered
    /\ UNCHANGED <<engineVars, clock, pc, now, sweepLocals, ev,
                   sweepDelivered, blockedFail, blockedAtStart>>

\* Variant of UserAfterContact that clears blocked_bot when a known user
\* contacts the bot again; C8_BlockedIsOneWay must reject it.
UserAfterContact_Unblocks(usersTbl, user_id) ==
    IF user_id \in DOMAIN usersTbl
    THEN [usersTbl EXCEPT ![user_id].blocked_bot = FALSE]
    ELSE [u \in DOMAIN usersTbl \cup {user_id} |->
             IF u = user_id THEN NewUser ELSE usersTbl[u]]

\* get_or_create_user: inserts the row with the column defaults, or updates
\* the name and last_activity columns (not among the modelled columns).
UserAfterContact(usersTbl, user_id) ==
    IF user_id \in DOMAIN usersTbl THEN usersTbl
    ELSE [u \in DOMAIN usersTbl \cup {user_id} |->
             IF u = user_id THEN NewUser ELSE usersTbl[u]]

GetOrCreateUser(user_id) ==
    /\ users' = UserAfterContact(users, user_id)
    /\ Handler(users' # users)
    /\ UNCHANGED <<tasks, prayer_notifications>>

\* callback_toggle_prayer_notifications
TogglePrayerRow(user) ==
    [user EXCEPT !.prayer_notifications_enabled = ~user.prayer_notifications_enabled]

TogglePrayerNotifications(user_id) ==
    /\ users' = IF user_id \in DOMAIN users
                THEN [users EXCEPT ![user_id] = TogglePrayerRow(users[user_id])]
                ELSE users
    /\ Handler(users' # users)
    /\ UNCHANGED <<tasks, prayer_notifications>>

\* callback_toggle_general_notifications
ToggleGeneralRow(user) ==
    [user EXCEPT !.notifications_enabled = ~user.notifications_enabled]

ToggleGeneralNotifications(user_id) ==
    /\ users' = IF user_id \in DOMAIN users
                THEN [users EXCEPT ![user_id] = ToggleGeneralRow(users[user_id])]
                ELSE users
    /\ Handler(users' # users)
    /\ UNCHANGED <<tasks, prayer_notifications>>

\* Variant of CompleteTaskRow that clears the sent-flags of the task it
\* completes; C3_FlagsNeverReset must reject it.
CompleteTaskRow_ClearsFlags(task) ==
    IF task.completed THEN task
    ELSE [task EXCEPT !.completed = TRUE, !.sent = NoFlags]

\* callback_complete_task, pressed by the owner of the task.
CompleteTaskRow(task) ==
    IF task.completed THEN task ELSE [task EXCEPT !.completed = TRUE]

CompleteTask(task_id) ==
    /\ tasks' = [tasks EXCEPT ![task_id] = CompleteTaskRow(tasks[task_id])]
    /\ Handler(tasks' # tasks)
    /\ UNCHANGED <<users, prayer_notifications>>

----------------------------------------------------------------------------

\* Under Spec no history is kept: the history variables stay as they start.
NoHistory == UNCHANGED <<historyVars, teamVars>>

Next ==
    \/ Start /\ NoHistory
    \/ Stop /\ NoHistory
    \/ Tick /\ NoHistory
    \/ LoadUsersDone /\ NoHistory
    \/ LoadTasksDone /\ NoHistory
    \/ SendTaskDone /\ NoHistory
    \/ MarkBlockedDone /\ NoHistory
    \/ FetchPrayerDone /\ NoHistory
    \/ CheckPrayerRecDone /\ NoHistory
    \/ SendPrayerDone /\ NoHistory
    \/ RecordPrayerDone /\ NoHistory
    \/ SweepReturn /\ NoHistory
    \/ \E u \in UserIds : GetOrCreateUser(u) /\ NoHistory
    \/ \E u \in UserIds : TogglePrayerNotifications(u) /\ NoHistory
    \/ \E u \in UserIds : ToggleGeneralNotifications(u) /\ NoHistory
    \/ \E t \in TaskIds : CompleteTask(t) /\ NoHistory

Spec == Init /\ [][Next]_vars

----------------------------------------------------------------------------
(* The program with a history of its deliveries *)

RecordKey(r) == PrayerKey(r.user_id, r.date, r.prayer_name, r.notification_type)

\* The reminders the step delivers.
JustDelivered == sweepDelivered' \ sweepDelivered

\* The step ends the wait for the insert of a record (the insert raised, or
\* stop() cancelled it) and the record is not there.
JustLost ==
    IF /\ pc = "recordPrayer"
       /\ <<pc', ui', pos'>> # <<pc, ui, pos>>
       /\ \A r \in prayer_notifications' : RecordKey(r) # CurrentKey
    THEN {CurrentKey} ELSE {}

\* delivered collects the task reminders delivered.
TaskHistory ==
    /\ delivered' = delivered \cup {key \in JustDelivered : key[1] = "task"}
    /\ UNCHANGED <<lostRecord, lastCall, evalCall, teamVars>>

NextTaskHistory ==
    \/ Start /\ TaskHistory
    \/ Stop /\ TaskHistory
    \/ Tick /\ TaskHistory
    \/ LoadUsersDone /\ TaskHistory
    \/ LoadTasksDone /\ TaskHistory
    \/ SendTaskDone /\ TaskHistory
    \/ MarkBlockedDone /\ TaskHistory
    \/ FetchPrayerDone /\ TaskHistory
    \/ CheckPrayerRecDone /\ TaskHistory
    \/ SendPrayerDone /\ TaskHistory
    \/ RecordPrayerDone /\ TaskHistory
    \/ SweepReturn /\ TaskHistory
    \/ \E u \in UserIds : GetOrCreateUser(u) /\ TaskHistory
    \/ \E u \in UserIds : TogglePrayerNotifications(u) /\ TaskHistory
    \/ \E u \in UserIds : ToggleGeneralNotifications(u) /\ TaskHistory
    \/ \E t \in TaskIds : CompleteTask(t) /\ TaskHistory

SpecTaskHistory == Init /\ [][NextTaskHistory]_vars

\* delivered collects the prayer reminders delivered, lostRecord those of
\* them whose record was not inserted.
PrayerHistory ==
    /\ delivered' = delivered \cup {key \in JustDelivered : key[1] = "prayer"}
    /\ lostRecord' = lostRecord \cup JustLost
    /\ UNCHANGED <<lastCall, evalCall, teamVars>>

NextPrayerHistory ==
    \/ Start /\ PrayerHistory
    \/ Stop /\ PrayerHistory
    \/ Tick /\ PrayerHistory
    \/ LoadUsersDone /\ PrayerHistory
    \/ LoadTasksDone /\ PrayerHistory
    \/ SendTaskDone /\ PrayerHistory
    \/ MarkBlockedDone /\ PrayerHistory
    \/ FetchPrayerDone /\ PrayerHistory
    \/ CheckPrayerRecDone /\ PrayerHistory
    \/ SendPrayerDone /\ PrayerHistory
    \/ RecordPrayerDone /\ PrayerHistory
    \/ SweepReturn /\ PrayerHistory
    \/ \E u \in UserIds : GetOrCreateUser(u) /\ PrayerHistory
    \/ \E u \in UserIds : TogglePrayerNotifications(u) /\ PrayerHistory
    \/ \E u \in UserIds : ToggleGeneralNotifications(u) /\ PrayerHistory
    \/ \E t \in TaskIds : CompleteTask(t) /\ PrayerHistory

SpecPrayerHistory == Init /\ [][NextPrayerHistory]_vars

\* lastCall tells whether the step was a call of start() or of stop().
CallHistory(call) ==
    /\ lastCall' = call
    /\ UNCHANGED <<delivered, lostRecord, evalCall, teamVars>>

NextCallHistory ==
    \/ Start /\ CallHistory("start")
    \/ Stop /\ CallHistory("stop")
    \/ Tick /\ CallHistory("none")
    \/ LoadUsersDone /\ CallHistory("none")
    \/ LoadTasksDone /\ CallHistory("none")
    \/ SendTaskDone /\ CallHistory("none")
    \/ MarkBlockedDone /\ CallHistory("none")
    \/ FetchPrayerDone /\ CallHistory("none")
    \/ CheckPrayerRecDone /\ CallHistory("none")
    \/ SendPrayerDone /\ CallHistory("none")
    \/ RecordPrayerDone /\ CallHistory("none")
    \/ SweepReturn /\ CallHistory("none")
    \/ \E u \in UserIds : GetOrCreateUser(u) /\ CallHistory("none")
    \/ \E u \in UserIds : TogglePrayerNotifications(u) /\ CallHistory("none")
    \/ \E u \in UserIds : ToggleGeneralNotifications(u) /\ CallHistory("none")
    \/ \E t \in TaskIds : CompleteTask(t) /\ CallHistory("none")

\* lastCall tells which call last changed the engine: "stopped" after a
\* stop() that found it Running, "restarted" after a start() that found it
\* Idle after such a stop().
RestartHistory(call) ==
    /\ lastCall' =
          IF call = "stop" /\ is_running THEN "stopped"
          ELSE IF call = "start" /\ ~is_running /\ lastCall = "stopped"
               THEN "restarted"
               ELSE lastCall
    /\ UNCHANGED <<delivered, lostRecord, evalCall, teamVars>>

NextRestartHistory ==
    \/ Start /\ RestartHistory("start")
    \/ Stop /\ RestartHistory("stop")
    \/ Tick /\ RestartHistory("none")
    \/ LoadUsersDone /\ RestartHistory("none")
    \/ LoadTasksDone /\ RestartHistory("none")
    \/ SendTaskDone /\ RestartHistory("none")
    \/ MarkBlockedDone /\ RestartHistory("none")
    \/ FetchPrayerDone /\ RestartHistory("none")
    \/ CheckPrayerRecDone /\ RestartHistory("none")
    \/ SendPrayerDone /\ RestartHistory("none")
    \/ RecordPrayerDone /\ RestartHistory("none")
    \/ SweepReturn /\ RestartHistory("none")
    \/ \E u \in UserIds : GetOrCreateUser(u) /\ RestartHistory("none")
    \/ \E u \in UserIds : TogglePrayerNotifications(u) /\ RestartHistory("none")
    \/ \E u \in UserIds : ToggleGeneralNotifications(u) /\ RestartHistory("none")
    \/ \E t \in TaskIds : CompleteTask(t) /\ RestartHistory("none")

\* The engine as bot_simple.py builds it, NotificationService(bot), over
\* tasks entered through the bot (no flag set yet).
InitCallHistory ==
    /\ Init
    /\ botPresent
    /\ \A t \in TaskIds : tasks[t].sent = NoFlags

SpecCallHistory == InitCallHistory /\ [][NextCallHistory]_vars

----------------------------------------------------------------------------
(* The program over a user row written by the data import *)

\* migrate_data.py, line 68: the region is user_data.get('prayerRegion',
\* 'Toshkent'), which is None when the imported file holds a null region;
\* the prayer toggle is taken from the file as well.
ImportedUsers ==
    [prayer_region : {NULL, Some("Toshkent")},
     notifications_enabled : {TRUE},
     prayer_notifications_enabled : BOOLEAN,
     blocked_bot : {FALSE},
     blocked_at : {NULL}]

InitImported ==
    /\ users \in [{1} -> ImportedUsers]
    /\ tasks = [t \in TaskIds |->
                   [user_id |-> 1, due_date |-> DueOf(t),
                    completed |-> FALSE, sent |-> NoFlags]]
    /\ prayer_notifications = {}
    /\ is_running = FALSE
    /\ jobs = 0
    /\ botPresent = TRUE
    /\ clock = Now0
    /\ pc = "idle"
    /\ now = Now0
    /\ sweepUsers = <<>>
    /\ ui = 0
    /\ loadedTasks = <<>>
    /\ prayer_times = NULL
    /\ pos = 0
    /\ blockedFrom = "none"
    /\ ops = 0
    /\ ev = "none"
    /\ delivered = {}
    /\ lostRecord = {}
    /\ lastCall = "none"
    /\ evalCall = NULL
    /\ NoTeams
    /\ sweepDelivered = {}
    /\ blockedFail = {}
    /\ blockedAtStart = {}
    /\ interfered = FALSE

SpecImported == InitImported /\ [][Next]_vars

SpecRestartHistory == InitCallHistory /\ [][NextRestartHistory]_vars

\* TeamService on its own, from no team.
SpecTeams == InitCallHistory /\ [][NextTeams]_vars

----------------------------------------------------------------------------
(* The pure functions on their own: one task, or one prayer of one user,   *)
(* is put through the loop over the intervals; minutes_until is computed   *)
(* for one time difference; one exception is classified.                   *)

\* minutes_until values the evaluator is called with: from below the lowest
\* window to above the highest.
EvalMinutes == (0 - MaxSlack)..(24 * 60 + MaxSlack)

EvalUser == 1
EvalDate == Today(Now0)
EvalPrayer == "Fajr"

\* Rows of prayer_notifications: the two of the prayer under test and rows
\* of another user, another date and another prayer.
EvalRecordRows ==
    { [id |-> 1, user_id |-> EvalUser, date |-> EvalDate,
       prayer_name |-> EvalPrayer, notification_type |-> "15min"],
      [id |-> 2, user_id |-> EvalUser, date |-> EvalDate,
       prayer_name |-> EvalPrayer, notification_type |-> "5min"],
      [id |-> 3, user_id |-> EvalUser + 1, date |-> EvalDate,
       prayer_name |-> EvalPrayer, notification_type |-> "15min"],
      [id |-> 4, user_id |-> EvalUser, date |-> EvalDate + 1,
       prayer_name |-> EvalPrayer, notification_type |-> "15min"],
      [id |-> 5, user_id |-> EvalUser, date |-> EvalDate,
       prayer_name |-> "Dhuhr", notification_type |-> "15min"] }

\* event_time - now in seconds, for events up to MaxSlack minutes in the
\* past or in the future.
EvalSeconds ==
    (0 - MaxSlack * SecondsPerMinute)..(MaxSlack * SecondsPerMinute)

\* Exceptions the except clauses of lines 150 and 209 classify: the errors
\* Telegram answers for an unreachable chat (one of them in upper case), the
\* shorter wordings "blocked by user" and "account deactivated", a timeout,
\* and the errors raised by the engine's own calls.
EvalErrors ==
    SendErrors \cup
    { <<"Forbidden:", "user", "is", "deactivated">>,
      <<"Bad", "Request:", "chat", "not", "found">>,
      <<"Forbidden:", "bot", "is", "not", "a", "member", "of", "the",
        "channel", "chat">>,
      <<"account", "deactivated">>,
      NoBotError, AlreadyAttachedError, StorageError }

\* Time strings get_prayer_times can hand over for a prayer, split at ':':
\* none (the key is missing, or its value is None or ""), two well-formed
\* ones, and malformed ones: minutes that are no number, an hour out of
\* range, three parts.
PrayerNames == {prayers[i] : i \in 1..Len(prayers)}
WellFormedTimes == {<<"05", "00">>, <<"12", "30">>}
EvalTimeStrings ==
    WellFormedTimes \cup
    {<<>>, <<"05", "xx">>, <<"25", "10">>, <<"05", "00", "00">>}

\* Sweeps at 04:45:00 and at 04:55:00: 15 and 5 minutes before 05:00.
EvalNows == {Now0 + SecondsPerMinute, Now0 + 11 * SecondsPerMinute}

InitEvaluator ==
    /\ users = [u \in {EvalUser} |-> NewUser]
    /\ tasks = [t \in TaskIds |->
                   [user_id |-> EvalUser, due_date |-> DueOf(t),
                    completed |-> FALSE, sent |-> NoFlags]]
    /\ prayer_notifications = {}
    /\ is_running = FALSE
    /\ jobs = 0
    /\ botPresent = TRUE
    /\ clock = Now0
    /\ pc = "idle"
    /\ now = Now0
    /\ sweepUsers = <<>>
    /\ ui = 0
    /\ loadedTasks = <<>>
    /\ prayer_times = NULL
    /\ pos = 0
    /\ blockedFrom = "none"
    /\ ops = 0
    /\ ev = "none"
    /\ delivered = {}
    /\ lostRecord = {}
    /\ lastCall = "none"
    /\ sweepDelivered = {}
    /\ blockedFail = {}
    /\ blockedAtStart = {}
    /\ interfered = FALSE
    /\ NoTeams
    /\ \/ evalCall \in [fn : {"task"}, minutes : EvalMinutes,
                         sent : [TaskIntervalIds -> BOOLEAN],
                         result : {NULL}]
       \/ evalCall \in [fn : {"prayer"}, minutes : EvalMinutes,
                         records : SUBSET EvalRecordRows,
                         result : {NULL}]
       \/ evalCall \in [fn : {"minutes"}, diff : EvalSeconds, result : {NULL}]
       \/ evalCall \in [fn : {"classify"}, error : EvalErrors, result : {NULL}]
       \/ evalCall \in [fn : {"times"}, times : [PrayerNames -> EvalTimeStrings],
                         at : EvalNows, result : {NULL}]

\* Lines 129-130: the loop over task_intervals for one task; the result is
\* the set of thresholds for which the evaluator answers "send".
EvalTaskThresholds ==
    /\ evalCall.fn = "task"
    /\ evalCall.result = NULL
    /\ evalCall' =
          [evalCall EXCEPT !.result =
              Some({task_intervals[i].id : i \in
                      {j \in 1..Len(task_intervals) :
                          _should_send_task_notification(
                              [sent |-> evalCall.sent], task_intervals[j],
                              evalCall.minutes)}})]
    /\ UNCHANGED <<stateVars, delivered, lostRecord, lastCall, teamVars>>

\* Lines 184-187: the loop over prayer_intervals for one prayer of one user.
EvalPrayerThresholds ==
    /\ evalCall.fn = "prayer"
    /\ evalCall.result = NULL
    /\ evalCall' =
          [evalCall EXCEPT !.result =
              Some({prayer_intervals[i].id : i \in
                      {j \in 1..Len(prayer_intervals) :
                          _should_send_prayer_notification(
                              evalCall.records, EvalUser, EvalPrayer,
                              prayer_intervals[j], evalCall.minutes,
                              EvalDate)}})]
    /\ UNCHANGED <<stateVars, delivered, lostRecord, lastCall, teamVars>>

\* Lines 125-126 and 179-181: minutes_until of an event time_diff away.
EvalMinutesUntil ==
    /\ evalCall.fn = "minutes"
    /\ evalCall.result = NULL
    /\ evalCall' = [evalCall EXCEPT !.result = Some(MinutesUntil(evalCall.diff))]
    /\ UNCHANGED <<stateVars, delivered, lostRecord, lastCall, teamVars>>

\* Lines 151 and 210: the except clause asks _is_user_blocked_error(e).
EvalClassifyError ==
    /\ evalCall.fn = "classify"
    /\ evalCall.result = NULL
    /\ evalCall' =
          [evalCall EXCEPT !.result = Some(_is_user_blocked_error(evalCall.error))]
    /\ UNCHANGED <<stateVars, delivered, lostRecord, lastCall, teamVars>>

\* Lines 172-187: the loop over the prayers and the intervals for one table
\* of times, no record being stored; the result is the set of
\* <<prayer, threshold>> for which a reminder is sent.
EvalPrayerTimes ==
    /\ evalCall.fn = "times"
    /\ evalCall.result = NULL
    /\ evalCall' =
          [evalCall EXCEPT !.result =
              Some({<<PrayerAt(k), PrayerIntervalAt(k).id>> : k \in
                      {j \in 1..(Len(prayers) * NPrayerIntervals) :
                          PrayerScan(evalCall.times, j, evalCall.at) = j}})]
    /\ UNCHANGED <<stateVars, delivered, lostRecord, lastCall, teamVars>>

NextEvaluator ==
    \/ EvalTaskThresholds
    \/ EvalPrayerThresholds
    \/ EvalMinutesUntil
    \/ EvalClassifyError
    \/ EvalPrayerTimes

SpecEvaluator == InitEvaluator /\ [][NextEvaluator]_vars

----------------------------------------------------------------------------
(* Properties *)

\* The sweep in flight has reached the end of check_notifications.
AtSweepEnd == pc \in {"returning", "aborting"}

\* Users the loop of line 87 has reached, and users the sweep loaded.
Visited == {sweepUsers[j].id : j \in 1..ui}
LoadedIds == {sweepUsers[j].id : j \in 1..Len(sweepUsers)}

\* The step completes the send the sweep is suspended at.
SendStep ==
    /\ pc \in {"sendTask", "sendPrayer"}
    /\ pc' # "idle"
    /\ <<pc', ui', pos'>> # <<pc, ui, pos>>

\* C1: each (task, threshold) reminder is delivered at most once over any
\* sequence of sweeps in which delivery succeeds: a sweep that follows a
\* delivery of the pair finds the flag set and does not send the pair again.
C1_TaskDeliveredAtMostOnce ==
    pc = "sendTask" => CurrentKey \notin delivered

\* C2: when a sweep has delivered the reminder of threshold X of a task, the
\* stored sent-flag of X of that task is true at the end of that sweep.
C2_FlagStoredAfterDelivery ==
    pc = "returning" =>
        \A key \in sweepDelivered :
            key[1] = "task" => tasks[key[2]].sent[key[3]]

\* C3: over sweeps and handler operations, a stored sent-flag (1day, 1hour,
\* 15min, due) of a task that is true is still true after every step.
C3_FlagsNeverReset ==
    [][\A t \in DOMAIN tasks : \A i \in TaskIntervalIds :
          tasks[t].sent[i] => tasks'[t].sent[i]]_vars

\* A task with a flag set has been completed by its owner while a sweep that
\* delivered reminders is at its end.
C3_Witness ==
    /\ AtSweepEnd
    /\ sweepDelivered # {}
    /\ \E t \in DOMAIN tasks : tasks[t].completed /\ tasks[t].sent["due"]

\* The sent-flags the engine holds true: the stored ones and the ones set on
\* the task objects of the sweep in flight.
FlagsHeld ==
    UNION {{TaskKey(t, i) : t \in {x \in DOMAIN tasks : tasks[x].sent[i]}}
           \cup {TaskKey(loadedTasks[j].id, i) :
                    j \in {x \in 1..Len(loadedTasks) : loadedTasks[x].sent[i]}}
           : i \in TaskIntervalIds}

\* C4: every sent-state the engine writes (a task flag set to true, a prayer
\* record inserted) belongs to a reminder that the same sweep has delivered;
\* this covers failing deliveries and stop() during a sweep.
C4_SentStateFollowsDelivery ==
    [][/\ \A r \in prayer_notifications' \ prayer_notifications :
              RecordKey(r) \in sweepDelivered
       /\ \A key \in FlagsHeld' \ FlagsHeld : key \in sweepDelivered']_vars

\* A record has just been inserted.
C4_Witness ==
    /\ ev = "recorded"
    /\ \E r \in prayer_notifications : RecordKey(r) \in sweepDelivered

C6_BlockedUserMarked ==
    [][/\ (AtSweepEnd /\ ~interfered)' =>
              \A u \in blockedFail' :
                  /\ users'[u].blocked_bot
                  /\ users'[u].blocked_at # NULL
                  /\ ~users'[u].notifications_enabled
                  /\ ~users'[u].prayer_notifications_enabled
       /\ (users' # users /\ ops' = ops) =>
              /\ pc = "markBlocked"
              /\ sweepUsers[ui].id \in blockedFail
              /\ DOMAIN users' = DOMAIN users
              /\ \A v \in DOMAIN users \ {sweepUsers[ui].id} :
                     users'[v] = users[v]]_vars

\* A sweep over two users ends after a delivery to one of them failed as
\* blocked and the marking was committed.
C6_Witness ==
    /\ AtSweepEnd
    /\ ~interfered
    /\ blockedFail # {}
    /\ Len(sweepUsers) = 2

\* C7: after a delivery to u failed with an error classified as unreachable,
\* the sweep attempts no further delivery to u, for tasks or prayers.
C7_NoAttemptAfterUnreachable ==
    pc \in {"sendTask", "sendPrayer"} => sweepUsers[ui].id \notin blockedFail

\* C8: blocked_bot is one-way: no step of the engine or of a handler (contact
\* through get_or_create_user included) takes it from true to false, and a
\* sweep attempts no delivery to a user who was blocked when it started.
C8_BlockedIsOneWay ==
    [][/\ \A u \in DOMAIN users :
              users[u].blocked_bot => (u \in DOMAIN users' /\ users'[u].blocked_bot)
       /\ pc' \in {"sendTask", "sendPrayer"} =>
              sweepUsers'[ui'].id \notin blockedAtStart']_vars

\* A sweep that started with a blocked user is about to deliver to another.
C8_Witness ==
    /\ blockedAtStart # {}
    /\ pc \in {"sendTask", "sendPrayer"}

IntervalOf(intervals, id) ==
    intervals[CHOOSE k \in 1..Len(intervals) : intervals[k].id = id]

\* The evaluator, asked about the reminder inside its window against what is
\* stored now, answers "send".
StillDue(tasksTbl, records, key) ==
    IF key[1] = "task"
    THEN LET interval == IntervalOf(task_intervals, key[3])
         IN _should_send_task_notification([sent |-> tasksTbl[key[2]].sent],
                                           interval, interval.minutes)
    ELSE LET interval == IntervalOf(prayer_intervals, key[5])
         IN _should_send_prayer_notification(records, key[2], key[4],
                                             interval, interval.minutes,
                                             key[3])

\* C9: a delivery failure that is not classified as unreachable changes no
\* task flag, no prayer record and no user field and is followed by no
\* write; the reminder stays unsent in storage, so that a later sweep inside
\* the window sends it again.
C9_TransientFailureChangesNothing ==
    [][(SendStep /\ ev' = "transientFail") =>
           /\ dbVars' = dbVars
           /\ pc' \notin {"recordPrayer", "markBlocked"}
           /\ StillDue(tasks', prayer_notifications', CurrentKey)]_vars

\* A delivery has just failed with an unclassified error.
C9_Witness ==
    /\ ev = "transientFail"
    /\ pc \notin {"idle", "recordPrayer", "markBlocked"}

\* C10: an unexpected exception while one user is processed (a storage error
\* loading the user's tasks or marking the user blocked) does not keep the
\* sweep from evaluating every other user it loaded.
C10_OtherUsersStillEvaluated ==
    AtSweepEnd => Visited = LoadedIds

\* C11: whatever fails in a sweep (the users query, a storage call, a
\* delivery, the prayer fetch), no exception leaves check_notifications: a
\* sweep ends only by reaching its return (or by stop()); while it runs and
\* when it has returned the engine is Running with its one job registered,
\* and the next tick that finds the engine Running and no sweep in flight
\* starts a sweep.
C11_SweepNeverRaises ==
    [][/\ (pc # "idle" /\ pc' = "idle" /\ is_running') => AtSweepEnd
       /\ pc' # "idle" => (is_running' /\ jobs' = 1)
       /\ (AtSweepEnd /\ pc' = "idle" /\ is_running') => jobs' = 1
       /\ (clock' # clock /\ pc = "idle" /\ is_running) =>
              pc' = "loadUsers"]_vars

\* A storage error has been caught by the except clause of line 99 and the
\* sweep is about to return, the engine Running with its job.
C11_Witness ==
    /\ pc = "aborting"
    /\ ev = "storageError"
    /\ is_running
    /\ jobs = 1

\* C12: at most one sweep is in flight: a tick that arrives while a sweep is
\* running leaves that sweep as it is and starts none, and it is not queued:
\* a sweep starts only at a tick that finds no sweep in flight.
C12_OneSweepInFlight ==
    [][/\ (clock' # clock /\ pc # "idle") =>
              UNCHANGED <<pc, now, ev, sweepLocals, sweepGhosts>>
       /\ (pc' = "loadUsers" /\ pc # "loadUsers") =>
              (clock' # clock /\ pc = "idle")]_vars

\* A tick has arrived while the sweep in flight was running.
C12_Witness ==
    /\ pc # "idle"
    /\ clock > now

\* C13: start() is idempotent: a call of start() while the engine is Running
\* changes nothing and adds no job; after every call of start() the engine
\* is Running, and whenever it is Running exactly one job is registered.
C13_StartIdempotent ==
    [][/\ (lastCall' = "start" /\ is_running) => UNCHANGED stateVars
       /\ lastCall' = "start" => is_running'
       /\ is_running' => jobs' = 1]_vars

\* start() has just been called while a sweep was in flight.
C13_Witness ==
    /\ lastCall = "start"
    /\ pc # "idle"
    /\ jobs = 1

\* C14: stop() while Running makes the engine Idle and removes the job, and
\* no sweep is in flight or starts while the engine is Idle; stop() while
\* Idle (a second stop() in a row, stop() before any start()) changes
\* nothing.
C14_StopDisposesJob ==
    [][/\ (lastCall' = "stop" /\ is_running) =>
              (~is_running' /\ jobs' = 0 /\ pc' = "idle")
       /\ (lastCall' = "stop" /\ ~is_running) => UNCHANGED stateVars
       /\ ~is_running' => (jobs' = 0 /\ pc' = "idle")
       /\ (pc' = "loadUsers" /\ pc # "loadUsers") => is_running]_vars

\* stop() has just been called on an engine whose sweeps have inserted a
\* record.
C14_Witness ==
    /\ lastCall = "stop"
    /\ ~is_running
    /\ jobs = 0
    /\ prayer_notifications # {}

\* The evaluator has been applied to a task / to a prayer.
TaskCallDone == evalCall.fn = "task" /\ evalCall.result # NULL
PrayerCallDone == evalCall.fn = "prayer" /\ evalCall.result # NULL

\* A record of the prayer under test for the threshold exists.
EvalRecorded(interval_id) ==
    \E r \in evalCall.records :
        RecordKey(r) = PrayerKey(EvalUser, EvalDate, EvalPrayer, interval_id)

\* C15: the task thresholds are 1440, 60, 15 and 0, and the reminder of a
\* threshold T fires iff the flag of T is false and minutes_until lies in
\* (T - 5, T]; for T = 60 with the flag false it fires at 58 and does not
\* fire at 55, 54 or 61.
C15_TaskWindow ==
    TaskCallDone =>
        /\ {task_intervals[i].minutes : i \in 1..Len(task_intervals)}
               = {1440, 60, 15, 0}
        /\ \A i \in 1..Len(task_intervals) :
              LET T == task_intervals[i].minutes
                  id == task_intervals[i].id
              IN id \in evalCall.result[1] <=>
                     /\ ~evalCall.sent[id]
                     /\ evalCall.minutes > T - 5
                     /\ evalCall.minutes <= T
        /\ ~evalCall.sent["1hour"] =>
              /\ evalCall.minutes = 58 => "1hour" \in evalCall.result[1]
              /\ evalCall.minutes \in {55, 54, 61} =>
                     "1hour" \notin evalCall.result[1]

\* A task due in 58 minutes with the 1hour flag false has fired 1hour.
C15_Witness ==
    /\ TaskCallDone
    /\ evalCall.minutes = 58
    /\ ~evalCall.sent["1hour"]
    /\ "1hour" \in evalCall.result[1]

\* C16: for every value of minutes_until and every setting of the flags at
\* most one of the four task thresholds fires for a task in one pass of the
\* loop; a task due in exactly 60 minutes with no flag set fires 1hour and
\* no other.
C16_OneThresholdPerTask ==
    TaskCallDone =>
        /\ Cardinality(evalCall.result[1]) <= 1
        /\ (evalCall.minutes = 60 /\ evalCall.sent = NoFlags) =>
              evalCall.result[1] = {"1hour"}

\* A task due in exactly 60 minutes with no flag set has been evaluated.
C16_Witness ==
    /\ TaskCallDone
    /\ evalCall.minutes = 60
    /\ evalCall.sent = NoFlags
    /\ evalCall.result = Some({"1hour"})

\* C17: the prayer thresholds are 15 and 5, and the reminder of a threshold
\* T fires iff no record exists for (user, today, prayer, T) and
\* minutes_until lies in (T - 2, T]; for T = 15 with no record it fires at
\* 14 and 15 and does not fire at 13 or 16.
C17_PrayerWindow ==
    PrayerCallDone =>
        /\ {prayer_intervals[i].minutes : i \in 1..Len(prayer_intervals)}
               = {15, 5}
        /\ \A i \in 1..Len(prayer_intervals) :
              LET T == prayer_intervals[i].minutes
                  id == prayer_intervals[i].id
              IN id \in evalCall.result[1] <=>
                     /\ ~EvalRecorded(id)
                     /\ evalCall.minutes > T - 2
                     /\ evalCall.minutes <= T
        /\ ~EvalRecorded("15min") =>
              /\ evalCall.minutes \in {14, 15} =>
                     "15min" \in evalCall.result[1]
              /\ evalCall.minutes \in {13, 16} =>
                     "15min" \notin evalCall.result[1]

\* 14 minutes before the prayer, with records of another user, date and
\* prayer only, the 15-minute reminder has fired.
C17_Witness ==
    /\ PrayerCallDone
    /\ evalCall.minutes = 14
    /\ evalCall.records # {}
    /\ ~EvalRecorded("15min")
    /\ "15min" \in evalCall.result[1]

\* C18 as stated: the window of the 15-minute prayer threshold is (10, 15]:
\* with no record for today the reminder fires at every minutes_until in
\* 11..15.
C18_PrayerWindowIsFiveMinutes ==
    (PrayerCallDone /\ ~EvalRecorded("15min") /\ evalCall.minutes \in 11..15)
        => "15min" \in evalCall.result[1]

\* C18, amended: the window of the 15-minute prayer threshold is (13, 15]:
\* with no record for today the reminder fires at 14 and at 15 minutes and
\* at no other value; 12 minutes before the prayer it does not fire.
C18_PrayerWindowIsTwoMinutes ==
    (PrayerCallDone /\ ~EvalRecorded("15min")) =>
        /\ "15min" \in evalCall.result[1] <=> evalCall.minutes \in 14..15
        /\ evalCall.minutes = 12 => evalCall.result[1] = {}

\* 12 minutes before the prayer, with no record at all, nothing has fired.
C18_Witness ==
    /\ PrayerCallDone
    /\ evalCall.minutes = 12
    /\ evalCall.records = {}
    /\ evalCall.result = Some({})

\* The step completes the users query / the tasks query of the sweep.
LoadUsersStep == pc = "loadUsers" /\ ev' = "usersLoaded"
LoadTasksStep ==
    /\ pc = "loadTasks"
    /\ <<pc', ui'>> # <<pc, ui>>
    /\ ev' = "tasksLoaded"

LoadedTaskIds(lt) == {lt[j].id : j \in 1..Len(lt)}

\* C19: the user list a sweep loads holds no user whose blocked_bot is true
\* at that moment, whatever the user's toggles, tasks and region; the list
\* does not change afterwards, and every delivery the sweep attempts goes to
\* a user of the list.
C19_OnlyUsersLoadedUnblocked ==
    [][/\ LoadUsersStep =>
              \A u \in DOMAIN users :
                  users[u].blocked_bot =>
                      \A j \in 1..Len(sweepUsers') : sweepUsers'[j].id # u
       /\ sweepUsers' # sweepUsers => (LoadUsersStep \/ pc' = "idle")
       /\ pc' \in {"sendTask", "sendPrayer"} =>
              ui' \in 1..Len(sweepUsers')]_vars

\* A sweep has loaded its users while a user with blocked_bot set had the
\* task toggle on again.
C19_Witness ==
    /\ ev = "usersLoaded"
    /\ ~interfered
    /\ \E u \in DOMAIN users :
          /\ users[u].blocked_bot
          /\ users[u].notifications_enabled
          /\ \A j \in 1..Len(sweepUsers) : sweepUsers[j].id # u

\* C20: the tasks a sweep loads for a user hold no task that is completed
\* at that moment, whatever its flags and due time; no task enters the
\* loaded tasks afterwards, and every reminder the sweep delivers and every
\* flag it sets belongs to a loaded task.
C20_CompletedTaskExcluded ==
    [][/\ LoadTasksStep =>
              \A t \in LoadedTaskIds(loadedTasks') : ~tasks[t].completed
       /\ ~LoadTasksStep =>
              LoadedTaskIds(loadedTasks') \subseteq LoadedTaskIds(loadedTasks)
       /\ \A key \in JustDelivered :
              key[1] = "task" => key[2] \in LoadedTaskIds(loadedTasks)
       /\ \A key \in FlagsHeld' \ FlagsHeld :
              key[2] \in LoadedTaskIds(loadedTasks)]_vars

\* A sweep has loaded a user's tasks without the one completed before, and
\* a threshold of another task of the user fires.
C20_Witness ==
    /\ ev = "tasksLoaded"
    /\ pc = "sendTask"
    /\ \E t \in DOMAIN tasks :
          /\ tasks[t].completed
          /\ tasks[t].user_id = sweepUsers[ui].id
          /\ t \notin LoadedTaskIds(loadedTasks)

\* The awaits of _check_prayer_notifications (the marking of a user after a
\* failed prayer delivery included).
AtPrayerAwait ==
    \/ pc \in {"fetchPrayer", "checkPrayerRec", "sendPrayer", "recordPrayer"}
    \/ pc = "markBlocked" /\ blockedFrom = "prayer"

\* User j of the loaded users su has the prayer toggle off or no region.
PrayerSkipped(su, j) ==
    \/ ~su[j].prayer_notifications_enabled
    \/ su[j].prayer_region = NULL

\* C21: for a user the sweep loaded with prayer_notifications_enabled false
\* or with no region, the sweep never waits for a prayer-time fetch or any
\* later step of the prayer check, delivers no prayer reminder and inserts
\* no PrayerNotification record.
C21_PrayerCheckSkipped ==
    [][\A j \in 1..Len(sweepUsers') :
          PrayerSkipped(sweepUsers', j) =>
              /\ ~(AtPrayerAwait' /\ ui' = j)
              /\ \A key \in sweepDelivered' :
                     key[1] = "prayer" => key[2] # sweepUsers'[j].id
              /\ \A r \in prayer_notifications' \ prayer_notifications :
                     r.user_id # sweepUsers'[j].id]_vars

\* A sweep has passed an imported user who has the prayer toggle on and no
\* region, delivering a task reminder to that user, and waits for the
\* prayer times of the next user.
C21_Witness ==
    /\ pc = "fetchPrayer"
    /\ ui = 2
    /\ sweepUsers[1].prayer_region = NULL
    /\ sweepUsers[1].prayer_notifications_enabled
    /\ \E key \in sweepDelivered : key[1] = "task"

\* The awaits of _check_task_notifications.
AtTaskAwait ==
    \/ pc \in {"loadTasks", "sendTask"}
    \/ pc = "markBlocked" /\ blockedFrom = "task"

\* The step completes a prayer-time fetch that gave no times.
FetchFailedStep ==
    /\ pc = "fetchPrayer"
    /\ <<pc', ui'>> # <<pc, ui>>
    /\ ev' = "fetchFailed"

\* C22: a prayer-time fetch that fails or gives no times changes nothing in
\* storage or in the engine and delivers nothing; the sweep goes on with
\* the next user as it does after any user, and does not come back to the
\* prayer check of the user in this sweep: within a sweep the users are
\* taken in order, a user's task check is not entered from the user's
\* prayer check, and the fetch is awaited only on entering a prayer check.
C22_FetchFailureSkips ==
    [][/\ FetchFailedStep =>
              /\ UNCHANGED <<dbVars, engineVars, sweepDelivered, sweepUsers>>
              /\ LET c == EnterUser(sweepUsers, ui + 1)
                 IN <<pc', ui', pos'>> = <<c.pc, c.ui, c.pos>>
              /\ ~(AtPrayerAwait' /\ ui' = ui)
       /\ (pc # "idle" /\ pc' \notin {"idle", "loadUsers"}) => ui' >= ui
       /\ (AtPrayerAwait /\ pc' # "idle" /\ ui' = ui) =>
              (AtPrayerAwait' \/ pc' = "returning")
       /\ (pc' = "fetchPrayer" /\ <<pc', ui'>> # <<pc, ui>>) =>
              (ui' > ui \/ ~AtPrayerAwait)]_vars

\* The fetch for the first of two users has given no times after a task
\* reminder was delivered to that user, and the sweep is at the second user.
C22_Witness ==
    /\ ev = "fetchFailed"
    /\ ui = 2
    /\ pc \in {"loadTasks", "fetchPrayer"}
    /\ sweepUsers[1].prayer_notifications_enabled
    /\ \E key \in sweepDelivered : key[1] = "task"
    /\ \A key \in sweepDelivered : key[1] # "prayer"
    /\ prayer_notifications = {}

\* C23: in every reachable state, over any sequence of sweeps, no two rows
\* of prayer_notifications have the same (user, date, prayer name,
\* threshold kind).
C23_OneRecordPerKey ==
    \A r1 \in prayer_notifications : \A r2 \in prayer_notifications :
        RecordKey(r1) = RecordKey(r2) => r1 = r2

\* The sweep of 04:46 has found the record of a Fajr 15-minute reminder
\* while two records exist, one for each of two users.
C23_Witness ==
    /\ ev = "recordPresent"
    /\ now = Now0 + 2 * SecondsPerMinute
    /\ Cardinality(prayer_notifications) = 2
    /\ \A r \in prayer_notifications :
          r.prayer_name = "Fajr" /\ r.notification_type = "15min"

\* C24: a step of the engine (a step of a sweep, a tick, start() or stop();
\* handlers are the steps that count an operation) creates and deletes no
\* user and no task, leaves every user's region and every task's owner, due
\* time and completed state as they are, and keeps every row of
\* prayer_notifications unchanged: it changes at most sent-flags, a user's
\* blocked_bot, blocked_at and two toggles, and adds records.
C24_SweepFrame ==
    [][ops' = ops =>
          /\ DOMAIN users' = DOMAIN users
          /\ \A u \in DOMAIN users :
                 users'[u].prayer_region = users[u].prayer_region
          /\ DOMAIN tasks' = DOMAIN tasks
          /\ \A t \in DOMAIN tasks :
                 /\ tasks'[t].user_id = tasks[t].user_id
                 /\ tasks'[t].due_date = tasks[t].due_date
                 /\ tasks'[t].completed = tasks[t].completed
          /\ prayer_notifications \subseteq prayer_notifications']_vars

\* A sweep that found a record stored has marked a user as blocked.
C24_Witness ==
    /\ ev = "markedBlocked"
    /\ prayer_notifications # {}
    /\ \E u \in DOMAIN users : users[u].blocked_bot /\ users[u].blocked_at # NULL

\* minutes_until has been computed for a time difference.
MinutesCallDone == evalCall.fn = "minutes" /\ evalCall.result # NULL

\* C25: minutes_until is floor((event_time - now) in seconds / 60) for every
\* time difference, those of events in the past included: 30 seconds after
\* the event it is -1.
C25_MinutesUntilIsFloor ==
    MinutesCallDone =>
        /\ evalCall.result[1] = evalCall.diff \div 60
        /\ evalCall.diff = 0 - 30 => evalCall.result[1] = 0 - 1

\* At time at the window of the (task, threshold) reminder key has passed:
\* minutes_until of the task is at or below T - 5.
WindowPassed(key, at) ==
    MinutesUntil(tasks[key[2]].due_date - at)
        <= IntervalOf(task_intervals, key[3]).minutes - 5

\* C26: the due time of a task is fixed, the clock only moves forward and a
\* sweep evaluates at the time it started; so once minutes_until of a task
\* is at or below T - 5 for a threshold T at some sweep, it is so at every
\* later sweep.  A sweep for which the window of (task, T) has passed does
\* not send the reminder, sets no flag of it in memory and leaves the stored
\* flag as it is: a window in which nothing was delivered is never made up
\* for.
C26_MissedWindowNeverFires ==
    [][/\ pc' = "sendTask" => ~WindowPassed(CurrentKey', now')
       /\ \A key \in JustDelivered :
              key[1] = "task" => ~WindowPassed(key, now)
       /\ (pc' # "idle" /\ (tasks' # tasks \/ loadedTasks' # loadedTasks)) =>
              \A key \in FlagsHeld' \ FlagsHeld : ~WindowPassed(key, now')
       /\ \A t \in DOMAIN tasks : tasks'[t].due_date = tasks[t].due_date
       /\ clock' >= clock
       /\ pc' # "idle" => now' = (IF pc = "idle" THEN clock' ELSE now)]_vars

\* The sweep of 04:46 ends: the task due at 04:56 is 10 minutes away, past
\* the window (10, 15] of its 15-minute threshold, and that reminder has
\* not been sent and its flag is false, while the sweep has delivered the
\* due reminder of the other task of the user.
C26_Witness ==
    /\ pc = "returning"
    /\ now = Now0 + 2 * SecondsPerMinute
    /\ MinutesUntil(tasks[2].due_date - now) = 10
    /\ ~tasks[2].completed
    /\ ~tasks[2].sent["15min"]
    /\ TaskKey(2, "15min") \notin sweepDelivered
    /\ TaskKey(1, "due") \in sweepDelivered

\* User j of the loaded users su has the task toggle on.
TaskOn(su, j) == su[j].notifications_enabled

\* C27: the task check of a user depends on the task toggle alone and the
\* prayer check on the prayer toggle (and the region) alone, as the sweep
\* loaded them: the sweep waits in the task check, and delivers task
\* reminders, only for a user with the task toggle on, and in the prayer
\* check only for a user with the prayer toggle on; a user is passed over
\* only when both checks are off for that user, a user with the task
\* toggle on gets the task check and one with it off starts with the
\* prayer-time fetch, and the task check of a user whose prayer check is on
\* is followed by that user's prayer-time fetch (unless an exception or
\* stop() ends the sweep).
C27_TogglesIndependent ==
    [][/\ AtTaskAwait' => TaskOn(sweepUsers', ui')
       /\ AtPrayerAwait' => ~PrayerSkipped(sweepUsers', ui')
       /\ \A key \in JustDelivered :
              IF key[1] = "task" THEN TaskOn(sweepUsers, ui)
                                 ELSE ~PrayerSkipped(sweepUsers, ui)
       /\ (pc # "idle" /\ pc' \notin {"idle", "aborting", "loadUsers"}) =>
              /\ \A j \in 1..Len(sweepUsers') :
                     (ui < j /\ (j < ui' \/ pc' = "returning")) =>
                         /\ ~TaskOn(sweepUsers', j)
                         /\ PrayerSkipped(sweepUsers', j)
              /\ (ui' # ui /\ pc' # "returning") =>
                     IF TaskOn(sweepUsers', ui') THEN pc' = "loadTasks"
                                                 ELSE pc' = "fetchPrayer"
              /\ (AtTaskAwait /\ ~(AtTaskAwait' /\ ui' = ui)
                    /\ ~PrayerSkipped(sweepUsers, ui)) =>
                     (pc' = "fetchPrayer" /\ ui' = ui)]_vars

\* At 04:45 the Fajr reminder and nothing else has been delivered to a user
\* who has the task toggle off, the prayer toggle on and a task inside the
\* window of its 15-minute threshold.
C27_Witness ==
    /\ ev = "delivered"
    /\ pc = "recordPrayer"
    /\ ~TaskOn(sweepUsers, ui)
    /\ sweepDelivered =
          {PrayerKey(sweepUsers[ui].id, Today(now), "Fajr", "15min")}
    /\ tasks[2].user_id = sweepUsers[ui].id
    /\ ~tasks[2].completed
    /\ _should_send_task_notification(tasks[2], task_intervals[3],
                                      MinutesUntil(tasks[2].due_date - now))

\* An exception has been classified.
ClassifyCallDone == evalCall.fn = "classify" /\ evalCall.result # NULL

\* The message of the classified exception, in lower case, contains the
\* phrase.
ErrorSays(phrase) == Contains(Lower(evalCall.error), phrase)

\* C28 as stated: an error whose message contains "blocked by user", "chat
\* not found" or "deactivated", in any letter case, is classified as
\* unreachable, and an error that contains none of the indicator phrases
\* of the engine is classified as transient.
C28_ShortIndicatorPhrases ==
    ClassifyCallDone =>
        /\ (\/ ErrorSays(<<"blocked", "by", "user">>)
            \/ ErrorSays(<<"chat", "not", "found">>)
            \/ ErrorSays(<<"deactivated">>)) => evalCall.result[1]
        /\ (\A indicator \in blocked_indicators : ~ErrorSays(indicator))
               => ~evalCall.result[1]

\* C28, amended: an error is classified as unreachable iff its message
\* contains, in any letter case, one of "bot was blocked by the user",
\* "user is deactivated", "chat not found", "bot is not a member"; every
\* other error is transient, among them one that says only "blocked by
\* user" or "account deactivated"; "Bad Request: CHAT NOT FOUND" is
\* unreachable.
C28_FourIndicatorPhrases ==
    ClassifyCallDone =>
        /\ evalCall.result[1] <=>
               \/ ErrorSays(<<"bot", "was", "blocked", "by", "the", "user">>)
               \/ ErrorSays(<<"user", "is", "deactivated">>)
               \/ ErrorSays(<<"chat", "not", "found">>)
               \/ ErrorSays(<<"bot", "is", "not", "a", "member">>)
        /\ evalCall.error \in {<<"blocked", "by", "user">>,
                                <<"account", "deactivated">>}
               => ~evalCall.result[1]
        /\ evalCall.error = <<"Bad", "Request:", "CHAT", "NOT", "FOUND">>
               => evalCall.result[1]

\* The error "blocked by user" has been classified as transient.
C28_Witness ==
    /\ ClassifyCallDone
    /\ evalCall.error = <<"blocked", "by", "user">>
    /\ evalCall.result = Some(FALSE)

\* The step completes the await inside _should_send_prayer_notification.
PrayerDecisionStep ==
    /\ pc = "checkPrayerRec"
    /\ pc' # "idle"
    /\ <<pc', ui', pos'>> # <<pc, ui, pos>>

\* C29: deciding whether a threshold fires neither changes nor reads
\* storage: the decision changes no stored row, and it is no storage call of
\* its own, so that it cannot end in a storage error; its answer is the one
\* the evaluator gives for the sweep's now, the event time, the threshold
\* and the already-sent state.
C29_EvaluatorConsultsNoStorage ==
    [][PrayerDecisionStep =>
          /\ dbVars' = dbVars
          /\ ev' # "storageError"
          /\ (pc' = "sendPrayer") =
                 _should_send_prayer_notification(
                     prayer_notifications, sweepUsers[ui].id, PrayerAt(pos),
                     PrayerIntervalAt(pos),
                     MinutesUntilPrayer(prayer_times[1], PrayerAt(pos), now),
                     Today(now))]_vars

\* The step ends the task check / the prayer check of the user the sweep is
\* at (stop() apart).
TaskCheckEnds == AtTaskAwait /\ pc' # "idle" /\ ~(AtTaskAwait' /\ ui' = ui)
PrayerCheckEnds == AtPrayerAwait /\ pc' # "idle" /\ ~(AtPrayerAwait' /\ ui' = ui)

\* C30: the two checks of a user and the users of a sweep do not depend on
\* their order: however the task check of a user ends (a failed delivery
\* and what follows it included), the prayer check of that user runs as it
\* would have run first (it begins with the fetch when it is on for the
\* user), and however a check ends, the sweep goes on to the users that
\* remain, as it would have if they had come first.
C30_ChecksOrderIndependent ==
    [][/\ TaskCheckEnds =>
              IF PrayerSkipped(sweepUsers, ui)
              THEN pc' # "aborting"
              ELSE pc' = "fetchPrayer" /\ ui' = ui
       /\ PrayerCheckEnds => pc' # "aborting"]_vars

----------------------------------------------------------------------------
(* Progress of the sweep *)

\* A step of the sweep in flight: one of its awaits completes.  Every await
\* of check_notifications is a call into storage, the delivery dispatcher or
\* the prayer-time client (whose requests time out after 10 seconds), and
\* the event loop resumes the coroutine when the call returns or raises.
SweepStep ==
    \/ LoadUsersDone
    \/ LoadTasksDone
    \/ SendTaskDone
    \/ MarkBlockedDone
    \/ FetchPrayerDone
    \/ CheckPrayerRecDone
    \/ SendPrayerDone
    \/ RecordPrayerDone
    \/ SweepReturn

\* The awaited calls return, and the cron trigger of start() reaches its next
\* minute.
Fairness ==
    /\ WF_vars(SweepStep /\ NoHistory)
    /\ WF_vars(Tick /\ NoHistory)

SpecFair == Init /\ [][Next]_vars /\ Fairness

\* C31: every sweep terminates: each awaited call returning or failing, a
\* sweep in flight ends (by its return, or cancelled by stop()).  Within the
\* sweep the loop never goes back to an earlier user, the sweep reaches its
\* return through the end of the loop only after every loaded user has been
\* visited, and a fetch that fails or times out moves the sweep on to a later
\* user or to the return, never to an abort.
C31_EverySweepTerminates ==
    /\ (pc # "idle") ~> (pc = "idle")
    /\ [][/\ (pc # "idle" /\ pc' \notin {"idle", "loadUsers"}) => ui' >= ui
          /\ pc' = "returning" => Visited' = LoadedIds'
          /\ FetchFailedStep =>
                 /\ pc' \notin {"idle", "aborting"}
                 /\ pc' # "returning" => ui' > ui]_vars

\* The fetch for the first of two users has failed and the sweep is at the
\* second user.
C31_Witness ==
    /\ ev = "fetchFailed"
    /\ pc = "loadTasks"
    /\ ui = 1 + 1

----------------------------------------------------------------------------
(* Interleavings of the sweep with the handlers *)

\* C32: in every reachable state a user whose blocked_bot is true has both
\* notification toggles false, whatever the interleaving of sweeps with
\* toggle_prayer_notifications and toggle_general_notifications.
C32_BlockedHasTogglesOff ==
    \A u \in DOMAIN users :
        users[u].blocked_bot =>
            /\ ~users[u].notifications_enabled
            /\ ~users[u].prayer_notifications_enabled

\* The tasks and thresholds <<t, k>> whose window the first sweep of the
\* model (one minute after Now0) falls in.
FirstSweepPairs ==
    {p \in TaskIds \X (1..NTaskIntervals) :
        _should_send_task_notification(
            [sent |-> NoFlags], task_intervals[p[2]],
            MinutesUntil(DueOf(p[1]) - (Now0 + SecondsPerMinute)))}

\* The engine is Running whenever a minute boundary has passed and is not
\* stopped, no delivery and no storage call fails, every task stays
\* incomplete and its owner reachable with task notifications enabled.
Reliable ==
    /\ clock > Now0 => is_running
    /\ ev \notin {"transientFail", "blockedFail", "storageError"}
    /\ \A t \in TaskIds :
          /\ ~tasks[t].completed
          /\ users[tasks[t].user_id].notifications_enabled
          /\ ~users[tasks[t].user_id].blocked_bot

\* C33: for a reachable user with task notifications enabled and an
\* incomplete task whose threshold T comes up, if the engine is Running, a
\* sweep runs every minute and delivery and storage never fail, then the
\* reminder for T is eventually delivered and its stored flag eventually
\* becomes true.
C33_ReminderDeliveredAndStored ==
    \A p \in FirstSweepPairs :
        (~tasks[p[1]].sent[task_intervals[p[2]].id] /\ []Reliable) =>
            /\ <>(TaskKey(p[1], task_intervals[p[2]].id) \in sweepDelivered)
            /\ <>(tasks[p[1]].sent[task_intervals[p[2]].id])

\* The step makes the sweep start a delivery: the loop comes to a
\* send_message call it was not suspended at before.
SendStarts ==
    /\ pc' \in {"sendTask", "sendPrayer"}
    /\ <<pc', ui', pos'>> # <<pc, ui, pos>>

\* C34: once complete_task has committed completed = true for a task, no
\* reminder for that task is delivered afterwards, even by a sweep that loaded
\* the task as incomplete before the commit and is still in flight: the
\* sweep starts no delivery for a task that is completed in storage.
C34_NoReminderAfterCompletion ==
    [][(SendStarts /\ pc' = "sendTask") =>
           ~tasks'[loadedTasks'[TaskAt(pos')].id].completed]_vars

\* C35: once a handler has committed a notification toggle of a user to
\* false, no reminder of that kind is delivered to the user afterwards, even
\* by a sweep that loaded the user with the toggle true and is still in
\* flight: the sweep starts no task delivery to a user whose stored
\* notifications_enabled is false and no prayer delivery to a user whose
\* stored prayer_notifications_enabled is false.  (The engine itself sets the
\* toggles to false only together with blocked_bot, and no handler changes
\* blocked_bot: a user with blocked_bot false and a toggle false was toggled
\* by a handler.)
C35_NoReminderAfterToggleOff ==
    [][SendStarts =>
           LET row == users'[sweepUsers'[ui'].id]
           IN ~row.blocked_bot =>
                  IF pc' = "sendTask" THEN row.notifications_enabled
                  ELSE row.prayer_notifications_enabled]_vars

----------------------------------------------------------------------------
(* The engine without a delivery dispatcher *)

\* C36: when the engine was constructed without a dispatcher (bot = None, as
\* main.py does), every delivery a sweep attempts fails as a transient error:
\* nothing is delivered, no task flag is set (in storage or on the loaded
\* object), no prayer record is inserted, no user is marked unreachable, and
\* the failure does not leave the loop: the sweep goes on with the next
\* threshold as after any transient failure.
C36_NoBotDeliveryIsTransient ==
    [][~botPresent =>
           /\ SendStep =>
                  /\ ev' = "transientFail"
                  /\ pc' \notin {"aborting", "markBlocked", "recordPrayer"}
                  /\ UNCHANGED dbVars
           /\ sweepDelivered' = {}
           /\ FlagsHeld' \subseteq FlagsHeld
           /\ prayer_notifications' = {}
           /\ \A u \in DOMAIN users' : ~users'[u].blocked_bot]_vars

\* Without a dispatcher a sweep has come to its return after its last
\* delivery attempt failed as transient.
C36_Witness ==
    /\ ~botPresent
    /\ ev = "transientFail"
    /\ pc = "returning"

----------------------------------------------------------------------------
(* Prayer time strings *)

TimesCallDone == evalCall # NULL /\ evalCall.fn = "times" /\ evalCall.result # NULL

\* Minutes from the sweep's now (on a minute boundary) to HH:MM of the same
\* day, by arithmetic on the clock reading.
MinutesTo(hhmm, at) ==
    (IntOf(hhmm[1]) * 60 + IntOf(hhmm[2])) - ((at % SecondsPerDay) \div SecondsPerMinute)

\* C37: a prayer whose time string is missing or malformed (not HH:MM) never
\* produces a reminder in the sweep, and every prayer of the same table with
\* a well-formed time is evaluated as if the others were well-formed too: it
\* fires exactly the thresholds whose window holds the minutes left to it.
C37_MalformedTimeSkipped ==
    TimesCallDone =>
        \A p \in PrayerNames :
            LET fired == {i \in {"15min", "5min"} : <<p, i>> \in evalCall.result[1]}
                hhmm == evalCall.times[p]
            IN IF hhmm \in WellFormedTimes
               THEN fired = {prayer_intervals[j].id : j \in
                               {x \in 1..Len(prayer_intervals) :
                                   /\ MinutesTo(hhmm, evalCall.at)
                                        <= prayer_intervals[x].minutes
                                   /\ MinutesTo(hhmm, evalCall.at)
                                        > prayer_intervals[x].minutes - PrayerWindow}}
               ELSE fired = {}

\* Fajr has a malformed time, Dhuhr none, and the reminder of Asr at 05:00
\* is sent.
C37_Witness ==
    /\ TimesCallDone
    /\ evalCall.times["Fajr"] = <<"05", "xx">>
    /\ evalCall.times["Dhuhr"] = <<>>
    /\ evalCall.times["Asr"] = <<"05", "00">>
    /\ <<"Asr", "15min">> \in evalCall.result[1]

----------------------------------------------------------------------------
(* start() and stop() in any order *)

\* C38: after any sequence of start() and stop() calls is_running is true
\* iff exactly one sweep job is registered (and never more than one is);
\* after a stop() the engine is Idle with no job and no sweep; a start()
\* after a stop() makes the engine Running again with exactly one job,
\* starts no sweep by itself, and the next minute boundary that finds no
\* sweep in flight starts one.
C38_RunningIffOneJob ==
    [][/\ is_running' <=> jobs' = 1
       /\ jobs' \in {0, 1}
       /\ lastCall' = "stopped" => (~is_running' /\ pc' = "idle")
       /\ lastCall' = "restarted" => is_running'
       /\ (lastCall' = "restarted" /\ lastCall = "stopped") =>
              (pc' = "idle" /\ UNCHANGED <<dbVars, clock>>)
       /\ (clock' # clock /\ lastCall = "restarted" /\ pc = "idle") =>
              (pc' = "loadUsers" /\ now' = clock')]_vars

\* After a stop() and a start() a sweep is in flight: it has loaded the
\* users.
C38_Witness ==
    /\ lastCall = "restarted"
    /\ is_running
    /\ jobs = 1
    /\ ev = "usersLoaded"

----------------------------------------------------------------------------
(* Teams *)

\* The step is a call of leave_team(team_id, user_id).
LeaveCalled(team_id, user_id) ==
    /\ teamCall' # teamCall
    /\ teamCall'.op = "leave"
    /\ teamCall'.team = team_id
    /\ teamCall'.user = user_id

\* C39: after any sequence of create_team, join_team and leave_team every
\* existing team has at least one member and its admin_id is one of its
\* members; when a member leaves, the member is gone from the team; when the
\* admin leaves and other members remain the admin is then one of them; when
\* the last member leaves the team is deleted.
C39_TeamsKeepAdminAmongMembers ==
    [][/\ \A t \in DOMAIN teams' :
              /\ TeamMembersOf(team_members', t) # {}
              /\ teams'[t].admin_id \in TeamMembersOf(team_members', t)
       /\ \A t \in DOMAIN teams : \A u \in TeamMembersOf(team_members, t) :
              LeaveCalled(t, u) =>
                  LET rest == TeamMembersOf(team_members, t) \ {u}
                  IN IF rest = {}
                     THEN t \notin DOMAIN teams'
                     ELSE /\ t \in DOMAIN teams'
                          /\ TeamMembersOf(team_members', t) = rest
                          /\ teams'[t].admin_id \in rest]_vars

====
